---- MODULE Spec2Model ----
(***************************************************************************)
(* Model of the recommendation route (src/src/app/api/recommendations/     *)
(* route.js): the POST handler, its oracle-text parser, the staggered and  *)
(* retried catalog searches and the concurrent enrichment of the resolved  *)
(* movies.  Every action is one run of JavaScript between two awaits.      *)
(***************************************************************************)
EXTENDS Bags, FiniteSets, Integers, Sequences, TLC

VARIABLES
    env,        \* process.env: which credentials are set
    req,        \* the request: body readable?, genre, userId, savePreferences
    pc,         \* position of the POST handler
    bodyRead,   \* request.json() has been called
    called,     \* external endpoints called so far (mock call record)
    responses,  \* responses returned by the handler, in order
    textResponse,         \* route.js:84
    movieTitles,          \* route.js:86
    tasks,                \* movieDetailsPromises: one search task per title
    movieDetailsResults,  \* route.js:173
    validMovies,          \* route.js:174
    etasks,               \* the enrichment callbacks of route.js:185
    prefs,      \* the rows of the table user_preferences, by user_id
    upserts,    \* bag of the upserts issued so far (table and key)
    logged,     \* labels written with console.error by the store writes
    parseIn,    \* parser harness: the oracle text under test
    parseOut,   \* parser harness: what the parse block made of it
    matchIn,    \* match harness: an oracle title and what its search did
    matchOut,   \* match harness: what the search callback returned
    user,             \* part_000:37
    userLists,        \* part_000:36
    error,            \* part_000:35
    toast,            \* the toast shown last (part_000:60)
    activeTab,        \* part_000:42
    showListModal,    \* part_000:39
    currentMovie,     \* part_000:40
    editingListId,    \* part_000:44
    user_movie_lists, \* the rows of the table user_movie_lists, by id
    pending,          \* the handlers of the page suspended at an await
    clicks            \* the handler calls made by the visitor so far

vars == <<env, req, pc, bodyRead, called, responses, textResponse,
          movieTitles, tasks, movieDetailsResults, validMovies, etasks,
          prefs, upserts, logged, parseIn, parseOut, matchIn, matchOut,
          user, userLists, error, toast, activeTab, showListModal,
          currentMovie, editingListId, user_movie_lists, pending, clicks>>

storeVars == <<prefs, upserts, logged>>

matchVars == <<matchIn, matchOut>>

pageVars == <<user, userLists, error, toast, activeTab, showListModal,
              currentMovie, editingListId, user_movie_lists, pending, clicks>>

-----------------------------------------------------------------------------
(* Bounds                                                                  *)

MaxTitles == 2      \* titles in an oracle array of the handler runs
MaxResults == 2     \* movies in one catalog search response
MaxClicks == 4      \* handler calls the visitor of the page makes
MaxTextLen == 4     \* tokens in an oracle text of the parser harness

-----------------------------------------------------------------------------
(* JavaScript values                                                       *)

\* undefined / null / a missing property of a string-valued field
Absent == "<undefined>"

\* !x for a string-valued x
Falsy(x) == x \in {Absent, ""}

\* x || d
OrElse(x, d) == IF Falsy(x) THEN d ELSE x

\* a parsed array element that is not a string (a nested array)
NonString == "<array>"

Titles == {"Up", "HEAT"}

\* String.prototype.toLowerCase on the strings of the model
toLowerCase(s) ==
    CASE s \in {"Up", "UP", "up"} -> "up"
      [] s \in {"HEAT", "Heat", "heat"} -> "heat"
      [] OTHER -> s

-----------------------------------------------------------------------------
(* Oracle text.  A text is a sequence of tokens: a bracket, a comma, a     *)
(* JSON string literal, a prose word, a blank, a line break or one of the  *)
(* two code-fence markers.                                                 *)

Quote(t) == "\"" \o t \o "\""

StringToks == {Quote(t) : t \in Titles}

TitleOf(tok) == CHOOSE t \in Titles : Quote(t) = tok

\* the marker of three backquotes, with and without the json tag
FenceToks == {"<fence json>", "<fence>"}

WhiteToks == {" ", "\n"}

Tokens == {"[", "]", ",", "word"} \cup StringToks \cup WhiteToks \cup FenceToks

\* textResponse.replace(fence markers, empty string), route.js:89
StripFences(t) == SelectSeq(t, LAMBDA x : x \notin FenceToks)

RECURSIVE TrimLeft(_)
TrimLeft(t) ==
    IF t # <<>> /\ Head(t) \in WhiteToks THEN TrimLeft(Tail(t)) ELSE t

RECURSIVE TrimRight(_)
TrimRight(t) ==
    IF t # <<>> /\ t[Len(t)] \in WhiteToks
    THEN TrimRight(SubSeq(t, 1, Len(t) - 1))
    ELSE t

\* String.prototype.trim
Trim(t) == TrimRight(TrimLeft(t))

\* j closes a span opened at i for the pattern of route.js:92, whose dot
\* matches no line break
Span(t, i, j) ==
    /\ i < j
    /\ t[i] = "["
    /\ t[j] = "]"
    /\ \A k \in i..j : t[k] # "\n"

\* cleanedResponse.match: leftmost start, greedy end; <<>> for no match
RegexMatch(t) ==
    LET starts == {i \in 1..Len(t) : \E j \in 1..Len(t) : Span(t, i, j)}
    IN  IF starts = {} THEN <<>>
        ELSE LET i == CHOOSE x \in starts : \A y \in starts : x <= y
                 ends == {j \in 1..Len(t) : Span(t, i, j)}
                 j == CHOOSE x \in ends : \A y \in ends : y <= x
             IN  SubSeq(t, i, j)

\* position of the first token at or after p that is not white space
RECURSIVE SkipWs(_, _)
SkipWs(t, p) ==
    IF p <= Len(t) /\ t[p] \in WhiteToks THEN SkipWs(t, p + 1) ELSE p

JFail == [ok |-> FALSE, elems |-> <<>>, next |-> 0]

\* JSON grammar: an array is an opening bracket, values separated by
\* commas, and a closing bracket; a value is a string or an array; white
\* space is allowed around every token.  JArray(t, p, acc) reads the
\* elements of an array whose opening bracket was just consumed; acc
\* holds the elements read so far.
RECURSIVE JArray(_, _, _)
JArray(t, p, acc) ==
    LET q == SkipWs(t, p)
    IN  IF q > Len(t) THEN JFail
        ELSE IF t[q] = "]" /\ acc = <<>>
             THEN [ok |-> TRUE, elems |-> <<>>, next |-> q + 1]
        ELSE LET v == IF t[q] \in StringToks
                      THEN [ok |-> TRUE, elems |-> <<TitleOf(t[q])>>, next |-> q + 1]
                      ELSE IF t[q] = "["
                      THEN LET in == JArray(t, q + 1, <<>>)
                           IN  [ok |-> in.ok, elems |-> <<NonString>>, next |-> in.next]
                      ELSE JFail
                 r == SkipWs(t, v.next)
             IN  IF ~v.ok \/ r > Len(t) THEN JFail
                 ELSE IF t[r] = "]"
                      THEN [ok |-> TRUE, elems |-> acc \o v.elems, next |-> r + 1]
                 ELSE IF t[r] = ","
                      THEN JArray(t, r + 1, acc \o v.elems)
                 ELSE JFail

\* JSON.parse of a text that must be one array
JSONParse(t) ==
    LET p == SkipWs(t, 1)
    IN  IF p > Len(t) \/ t[p] # "[" THEN JFail
        ELSE LET r == JArray(t, p + 1, <<>>)
             IN  IF r.ok /\ SkipWs(t, r.next) > Len(t) THEN r ELSE JFail

\* route.js:86-109: the titles, or the message of the error thrown
ParseTitles(text) ==
    LET cleanedResponse == Trim(StripFences(text))
        match == RegexMatch(cleanedResponse)
        parsed == JSONParse(match)
    IN  IF match = <<>>
        THEN [ok |-> FALSE, titles |-> <<>>,
              message |-> "No valid JSON array found in Gemini response"]
        ELSE IF ~parsed.ok
        THEN [ok |-> FALSE, titles |-> <<>>, message |-> "SyntaxError"]
        ELSE IF Len(parsed.elems) = 0
        THEN [ok |-> FALSE, titles |-> <<>>,
              message |-> "Invalid response format - expected array of movie titles"]
        ELSE [ok |-> TRUE, titles |-> parsed.elems, message |-> ""]

-----------------------------------------------------------------------------
(* The request and the environment                                         *)

Credentials == {"supabaseUrl", "supabaseKey", "geminiApiKey", "tmdbApiKey"}

Envs == [Credentials -> BOOLEAN]

FullEnv == [c \in Credentials |-> TRUE]

\* request bodies: one that request.json() cannot read, and the readable
\* ones; language is "en" in all of them, and additionalDetails is given
\* or left out in the requests that ask for their preferences to be saved
Requests ==
    {[readable |-> FALSE, genre |-> Absent, userId |-> Absent,
      savePreferences |-> FALSE, language |-> Absent,
      additionalDetails |-> Absent]}
    \cup {r \in [readable : {TRUE}, genre : {Absent, "", "Sci-Fi"},
                  userId : {Absent, "u1"}, savePreferences : BOOLEAN,
                  language : {"en"},
                  additionalDetails : {Absent, "set in space"}] :
             r.additionalDetails # Absent =>
                 r.savePreferences /\ r.userId # Absent}

\* ConfigError without the check of route.js:29
ConfigError_SkipsCatalogKey(e) ==
    IF ~e["supabaseUrl"] \/ ~e["supabaseKey"]
    THEN "Configuration Error (Supabase)"
    ELSE IF ~e["geminiApiKey"] THEN "Configuration Error (Gemini)"
    ELSE ""

\* route.js:17-34: the label of the configuration error, "" when there is none
ConfigError(e) ==
    IF ~e["supabaseUrl"] \/ ~e["supabaseKey"]
    THEN "Configuration Error (Supabase)"
    ELSE IF ~e["geminiApiKey"] THEN "Configuration Error (Gemini)"
    ELSE IF ~e["tmdbApiKey"] THEN "Configuration Error (TMDB)"
    ELSE ""

\* AfterBody with the preference upsert moved before the genre check
AfterBody_SavesFirst(r) ==
    IF ~r.readable THEN "throw"
    ELSE IF r.savePreferences /\ ~Falsy(r.userId) THEN "savePreferences"
    ELSE IF Falsy(r.genre) THEN "reject"
    ELSE "generate"

\* route.js:41-82: what the handler does once request.json() has settled
AfterBody(r) ==
    IF ~r.readable THEN "throw"
    ELSE IF Falsy(r.genre) THEN "reject"
    ELSE IF r.savePreferences /\ ~Falsy(r.userId) THEN "savePreferences"
    ELSE "generate"

\* route.js:64-68: an error result or a thrown error of the preference
\* upsert is logged and the handler goes on to the oracle call
AfterPreferenceSave(outcome) == "generate"

StoreOutcomes == {"ok", "error", "threw"}

-----------------------------------------------------------------------------
(* The table user_preferences and the upserts the handler sends            *)

Users == {"u1", "u2"}

\* the columns the handler writes, but for updated_at
Columns == {"user_id", "genre", "language", "additional_details"}

Null == "<null>"

\* the entry of a user_id that has no row
NoRow == [c \in Columns |-> Null]

\* what the table holds when the request arrives: a row of an earlier
\* request of u1 and a row of another user
InitialPrefs ==
    [u \in Users |->
        IF u = "u1"
        THEN [user_id |-> "u1", genre |-> "Drama", language |-> "fr",
              additional_details |-> "a true story"]
        ELSE [user_id |-> "u2", genre |-> "Horror", language |-> "de",
              additional_details |-> Null]]

\* route.js:54-60: the object given to upsert
PreferencePayload(r) ==
    [user_id |-> r.userId, genre |-> r.genre, language |-> r.language,
     additional_details |-> r.additionalDetails]

\* the columns of the request body the client sends: JSON.stringify
\* leaves out a property whose value is undefined
SentColumns(payload) == {c \in Columns : payload[c] # Absent}

\* route.js:53-62, upsert with onConflict 'user_id': the row of that
\* user_id takes the columns that were sent and keeps its other columns;
\* without such a row one is inserted, the columns not sent being null
Upsert(table, payload) ==
    LET old == table[payload.user_id]
        row == [c \in Columns |->
                   IF c \in SentColumns(payload) THEN payload[c]
                   ELSE old[c]]
    IN  [table EXCEPT ![payload.user_id] = row]

PreferencesLabel == "Error saving preferences:"
MovieSaveLabel == "Error saving movie to user preferences:"

\* route.js:64-67: what console.error writes for an outcome of the
\* preference upsert
PreferencesLogged(outcome) ==
    IF outcome = "ok" THEN {} ELSE {PreferencesLabel}

\* route.js:223-240: the result of the saved-movie upsert is not looked
\* at, so only a thrown error is logged
MovieSaveLogged(outcome) ==
    IF outcome = "threw" THEN {MovieSaveLabel} ELSE {}

NoUpserts == [user_preferences |-> EmptyBag, user_movies |-> EmptyBag]

\* one more upsert into the given table with the given key
Issued(u, table, key) ==
    [u EXCEPT ![table] = @ (+) SetToBag({key})]

-----------------------------------------------------------------------------
(* Responses                                                               *)

\* NextResponse.json(body, {status}): fields names the properties of an
\* error body; a success body is the array movies
Response(status, label, details, raw, fields, movies) ==
    [status |-> status, error |-> label, details |-> details,
     response |-> raw, fields |-> fields, movies |-> movies]

\* route.js:267
SuccessResponse(enrichedMovies) ==
    Response(200, Absent, Absent, <<>>, {}, enrichedMovies)

\* route.js:18-33
ConfigResponse(label) ==
    Response(500, label, "environment variables are missing on the server",
             <<>>, {"error", "details"}, <<>>)

\* route.js:45
GenreStatus == 400

GenreResponse ==
    Response(GenreStatus, "Genre is required", Absent, <<>>, {"error"}, <<>>)

\* the parse-failure body without the response property
ParseResponse_WithoutText(message, text) ==
    Response(500, "Failed to parse movie recommendations", message,
             <<>>, {"error", "details"}, <<>>)

\* route.js:104-108
ParseResponse(message, text) ==
    Response(500, "Failed to parse movie recommendations", message,
             text, {"error", "details", "response"}, <<>>)

\* the no-results body sent with the default status
NoResultsStatus_Ok == SuccessResponse(<<>>).status

\* route.js:177-180
NoResultsStatus == 404

\* the no-results body with the label alone
NoResultsResponse_WithoutDetails ==
    Response(NoResultsStatus, "No movies found matching your criteria",
             Absent, <<>>, {"error"}, <<>>)

NoResultsResponse ==
    Response(NoResultsStatus, "No movies found matching your criteria",
             "TMDB returned no valid results for the suggested movies",
             <<>>, {"error", "details"}, <<>>)

\* the outer catch answering with status 502
ExceptionResponse_BadGateway(message) ==
    Response(502, "API route error: " \o message, "Internal server error",
             <<>>, {"error", "details"}, <<>>)

\* route.js:270-273: the label embeds error.message
ExceptionResponse(message) ==
    Response(500, "API route error: " \o message, "Internal server error",
             <<>>, {"error", "details"}, <<>>)

BodyErrorMessage == "Unexpected end of JSON input"

OracleErrors == {"[GoogleGenerativeAI Error]: fetch failed"}

CatalogErrors == {"timeout of 10000ms exceeded",
                  "Request failed with status code 429"}

UpstreamMessages == OracleErrors \cup CatalogErrors

-----------------------------------------------------------------------------
(* The catalog                                                             *)

\* a search result; of the fields the handler copies with a default,
\* overview and release_date stand for the rest
Movie(id, title, overview, date) ==
    [id |-> id, title |-> title, overview |-> overview, release_date |-> date]

\* the value null of movieDetailsResults
NoMovie == Movie(0, Absent, Absent, Absent)

CatalogMovies ==
    {Movie(1, "UP", "A house and balloons", "2009-05-28"),
     Movie(2, "Heat", Absent, ""),
     Movie(3, Absent, "untitled entry", "1999-01-01")}

RECURSIVE SeqsUpTo(_, _)
SeqsUpTo(S, n) ==
    IF n = 0 THEN {<<>>}
    ELSE LET shorter == SeqsUpTo(S, n - 1)
         IN  shorter \cup {Append(q, x) : q \in shorter, x \in S}

\* a result list names no movie twice
NoRepeat(q) == \A a, b \in 1..Len(q) : q[a] = q[b] => a = b

\* response.data of a search: with no results property, or with a list of
\* at most MaxResults distinct movies
SearchData ==
    {[hasResults |-> FALSE, results |-> <<>>]}
    \cup {[hasResults |-> TRUE, results |-> r] :
            r \in {q \in SeqsUpTo(CatalogMovies, MaxResults) : NoRepeat(q)}}

\* route.js:155-157: the callback of find
IsExactMatch(movie, title) ==
    ~Falsy(movie.title) /\ toLowerCase(movie.title) = toLowerCase(title)

\* Array.prototype.find: the first matching element, NoMovie for undefined
Find(results, title) ==
    LET hits == {k \in 1..Len(results) : IsExactMatch(results[k], title)}
    IN  IF hits = {} THEN NoMovie
        ELSE results[CHOOSE k \in hits : \A h \in hits : k <= h]

\* ChooseMovie falling back to the last result instead of the first
ChooseMovie_TakesLast(data, title) ==
    IF ~data.hasResults \/ Len(data.results) = 0 THEN NoMovie
    ELSE LET exactMatch == Find(data.results, title)
             movieToUse == IF exactMatch # NoMovie THEN exactMatch
                           ELSE data.results[Len(data.results)]
         IN  IF Falsy(movieToUse.title) THEN NoMovie ELSE movieToUse

\* route.js:150-166 for a string title: the movie returned, NoMovie for null
ChooseMovie(data, title) ==
    IF ~data.hasResults \/ Len(data.results) = 0 THEN NoMovie
    ELSE LET exactMatch == Find(data.results, title)
             movieToUse == IF exactMatch # NoMovie THEN exactMatch
                           ELSE data.results[1]
         IN  IF Falsy(movieToUse.title) THEN NoMovie ELSE movieToUse

\* route.js:156: title.toLowerCase() throws for a title that is no string,
\* as soon as find meets a result with a title
FindThrows(data, title) ==
    /\ title = NonString
    /\ data.hasResults
    /\ \E k \in 1..Len(data.results) : ~Falsy(data.results[k].title)

\* route.js:150-170: what the callback returns once its search has
\* returned data; the TypeError is caught at route.js:167 and null returned
CallbackResult(data, title) ==
    IF FindThrows(data, title) THEN NoMovie ELSE ChooseMovie(data, title)

\* route.js:118
retries == 3

\* route.js:124
RetryDelayMs == 500

\* route.js:133
StaggerMs == 200

\* IsLastAttempt with the comparison off by one
IsLastAttempt_OffByOne(attempts) == attempts = retries - 1

\* route.js:123: the last attempt rethrows, the others wait and go on
IsLastAttempt(attempts) == attempts = retries

\* route.js:123: the error fetchWithRetry throws after the last attempt
Rethrown(e) == e

\* a callback whose delay does not depend on its index
NewTask_SameDelay(index) ==
    [st |-> "stagger", delayMs |-> StaggerMs, attempts |-> 0,
     fails |-> 0, waitedMs |-> 0, lastError |-> "", ret |-> "",
     caught |-> "", first |-> Absent, result |-> NoMovie]

\* the callback of route.js:131, suspended at its first await
NewTask(index) ==
    [st |-> "stagger", delayMs |-> index * StaggerMs, attempts |-> 0,
     fails |-> 0, waitedMs |-> 0, lastError |-> "", ret |-> "",
     caught |-> "", first |-> Absent, result |-> NoMovie]

\* the filter of route.js:174 left out
FilterValid_KeepsNull(results) == results

\* route.js:174
RECURSIVE FilterValid(_)
FilterValid(results) ==
    IF results = <<>> THEN <<>>
    ELSE IF Head(results) # NoMovie
         THEN <<Head(results)>> \o FilterValid(Tail(results))
         ELSE FilterValid(Tail(results))

-----------------------------------------------------------------------------
(* Enrichment                                                              *)

\* detailsResponse.data: has names the properties the catalog sent
FullDetails ==
    [has |-> {"runtime", "genres", "credits", "videos", "similar", "status",
              "tagline"},
     runtime |-> 148,
     genres |-> <<[id |-> 878, name |-> "Science Fiction"]>>,
     credits |-> [cast |-> <<"actor">>, crew |-> <<"director">>],
     videos |-> <<"trailer">>,
     similar |-> <<7>>,
     status |-> "Released",
     tagline |-> "tagline"]

\* a details record with none of the properties
BareDetails ==
    [has |-> {},
     runtime |-> 0,
     genres |-> <<>>,
     credits |-> [cast |-> <<>>, crew |-> <<>>],
     videos |-> <<>>,
     similar |-> <<>>,
     status |-> "",
     tagline |-> ""]

DetailsData == {FullDetails, BareDetails}

\* outcomes of the watch/providers call: it fails, it has no US entry, or
\* it has one
ProviderOutcomes == {"failed", "none", "US"}

NullProviders == "null"

USProviders == "providers of region US"

\* route.js:191-199
ProvidersOf(outcome) == IF outcome = "US" THEN USProviders ELSE NullProviders

\* data.f || default
Prop(data, f, default) == IF f \in data.has THEN data[f] ELSE default

\* route.js:244-262
PartialRecord(movie) ==
    [id |-> movie.id,
     title |-> movie.title,
     overview |-> OrElse(movie.overview, "No overview available"),
     release_date |-> OrElse(movie.release_date, "Unknown"),
     runtime |-> 0,
     genres |-> <<>>,
     credits |-> [cast |-> <<>>, crew |-> <<>>],
     videos |-> <<>>,
     similar |-> <<>>,
     providers |-> NullProviders,
     status |-> "Unknown",
     tagline |-> ""]

\* route.js:201-219
MovieData(movie, data, providers) ==
    [id |-> movie.id,
     title |-> movie.title,
     overview |-> OrElse(movie.overview, "No overview available"),
     release_date |-> OrElse(movie.release_date, "Unknown"),
     runtime |-> Prop(data, "runtime", 0),
     genres |-> Prop(data, "genres", <<>>),
     credits |-> Prop(data, "credits", [cast |-> <<>>, crew |-> <<>>]),
     videos |-> Prop(data, "videos", <<>>),
     similar |-> Prop(data, "similar", <<>>),
     providers |-> providers,
     status |-> OrElse(Prop(data, "status", Absent), "Unknown"),
     tagline |-> OrElse(Prop(data, "tagline", Absent), "")]

\* the callback rethrows instead of returning the partial record
AfterDetailsFailure_Throws == "throw"

\* route.js:242: how the callback ends when the details call fails
AfterDetailsFailure == "partial"

\* a failed providers call ends the callback in the outer catch
AfterProvidersFailure_Degrades == "partial"

\* route.js:197-199: a failed providers call is logged, the callback goes on
AfterProvidersFailure == "continue"

\* route.js:221: the saved-movie upsert is attempted when userId is set
WantsMovieSave(r) == ~Falsy(r.userId)

\* the callback of route.js:185, suspended at the details call
NewETask(movie) ==
    [st |-> "details", movie |-> movie, details |-> "", data |-> BareDetails,
     providers |-> "", record |-> PartialRecord(NoMovie)]

-----------------------------------------------------------------------------
(* Oracle texts of the handler runs                                        *)

TitleAt(i) == IF i % 2 = 1 THEN "Up" ELSE "HEAT"

RECURSIVE ArrayBody(_)
ArrayBody(n) ==
    IF n = 0 THEN <<>>
    ELSE IF n = 1 THEN <<Quote(TitleAt(1))>>
    ELSE ArrayBody(n - 1) \o <<",", Quote(TitleAt(n))>>

\* the text of an array of n titles on one line
ArrayText(n) == <<"[">> \o ArrayBody(n) \o <<"]">>

\* the same array in a fenced block after a line of prose
Fenced(t) ==
    <<"word", "\n", "<fence json>", "\n">> \o t \o <<"\n", "<fence>", "\n">>

OracleTexts ==
    {ArrayText(n) : n \in 0..MaxTitles}
    \cup {Fenced(ArrayText(1))}
    \cup {<<"word">>,
          <<"[", Quote("Up"), ",", "]">>,
          <<"[", "\n", Quote("Up"), "\n", "]">>,
          <<"[", "[", Quote("Up"), "]", "]">>}

-----------------------------------------------------------------------------
(* The search callback of route.js:131-171 on its own, over every title    *)
(* and every outcome of its search                                         *)

\* an oracle title that no catalog movie has, besides those of Titles and
\* an array element that is no string
MatchTitles == Titles \cup {"Solaris", NonString}

\* search is "returned" with the data of the response, or the error that
\* fetchWithRetry threw after its last attempt
MatchInputs ==
    [title : MatchTitles, search : {"returned"}, data : SearchData]
    \cup [title : MatchTitles, search : CatalogErrors,
          data : {[hasResults |-> FALSE, results |-> <<>>]}]

MatchAtRest ==
    /\ matchIn = [title |-> "Up", search |-> "returned",
                  data |-> [hasResults |-> FALSE, results |-> <<>>]]
    /\ matchOut = NoMovie

-----------------------------------------------------------------------------
(* The Home page of part_000: its state, the table user_movie_lists, and   *)
(* the handlers that manage the movie lists                                *)

\* the movies the visitor can pick; some(m => m.id === movie.id) looks at
\* the id alone
PageMovie(id, title) == [id |-> id, title |-> title]

PageMovies == {PageMovie(1, "Up"), PageMovie(2, "Heat")}

\* currentMovie when it is null
NoPageMovie == PageMovie(0, "")

\* the name typed into newListName and editedListName
Names == {"Later"}

\* a row of user_movie_lists, and the entry of an id that has no row
Row(id, owner, name, movies) ==
    [id |-> id, user_id |-> owner, name |-> name, movies |-> movies]

NoList == Row(0, "", "", <<>>)

\* ids the table can give out: the two rows it starts with, and one for
\* each handler call
ListIds == 1..(2 + MaxClicks)

\* the table when the page is mounted: a list of u1 and a list of u2
InitialLists ==
    [i \in ListIds |->
        IF i = 1 THEN Row(1, "u1", "Favs", <<PageMovie(1, "Up")>>)
        ELSE IF i = 2 THEN Row(2, "u2", "Later", <<>>)
        ELSE NoList]

\* the entry of an id whose row was deleted: the table gives no id twice
DeletedList == Row(0, "<deleted>", "", <<>>)

\* the id the table gives to the next row
NextListId(table) ==
    CHOOSE i \in ListIds :
        /\ table[i] = NoList
        /\ \A k \in ListIds : table[k] = NoList => i <= k

RECURSIVE Descending(_, _)
\* the rows with the given ids, the latest id first
Descending(table, ids) ==
    IF ids = {} THEN <<>>
    ELSE LET m == CHOOSE i \in ids : \A k \in ids : k <= i
         IN  <<table[m]>> \o Descending(table, ids \ {m})

\* part_000:190-194: select('*').eq('user_id', userId).order('created_at',
\* { ascending: false })
SelectByOwner(table, userId) ==
    Descending(table, {i \in ListIds : table[i].id = i
                                        /\ table[i].user_id = userId})

\* select(...).eq('id', listId).single() finds a row
HasRow(table, listId) == listId \in ListIds /\ table[listId].id = listId

\* an update that adds the given movies to the stored ones
UpdateMovies_Appends(table, listId, movies) ==
    IF HasRow(table, listId)
    THEN [table EXCEPT ![listId].movies = @ \o movies]
    ELSE table

\* update({movies}).eq('id', listId): the rows with that id are changed
UpdateMovies(table, listId, movies) ==
    IF HasRow(table, listId)
    THEN [table EXCEPT ![listId].movies = movies]
    ELSE table

\* update({name}).eq('id', listId)
UpdateName(table, listId, name) ==
    IF HasRow(table, listId)
    THEN [table EXCEPT ![listId].name = name]
    ELSE table

\* delete().eq('id', listId)
DeleteRow(table, listId) ==
    IF HasRow(table, listId)
    THEN [table EXCEPT ![listId] = DeletedList]
    ELSE table

\* movieExists that finds no movie
movieExists_Never(movies, movie) == FALSE

\* part_000:364: listData.movies.some(m => m.id === movie.id)
movieExists(movies, movie) ==
    \E k \in 1..Len(movies) : movies[k].id = movie.id

RECURSIVE WithoutMovie(_, _)
\* part_000:451: listData.movies.filter(movie => movie.id !== movieId)
WithoutMovie(movies, movieId) ==
    IF movies = <<>> THEN <<>>
    ELSE IF Head(movies).id = movieId THEN WithoutMovie(Tail(movies), movieId)
    ELSE <<Head(movies)>> \o WithoutMovie(Tail(movies), movieId)

RECURSIVE WithoutList(_, _)
\* part_000:432: userLists.filter(list => list.id !== listId)
WithoutList(rows, listId) ==
    IF rows = <<>> THEN <<>>
    ELSE IF Head(rows).id = listId THEN WithoutList(Tail(rows), listId)
    ELSE <<Head(rows)>> \o WithoutList(Tail(rows), listId)

\* showToast(message, type)
Toast(type, message) == [type |-> type, message |-> message]

NoToast == Toast("", "")

\* a handler of the page suspended at an await: st names the call it
\* waits for; by, seen, movie and name are the user, userLists,
\* currentMovie and the name of the render the handler was called in;
\* data is what it goes on to write
Op(kind, st, by, listId, movie, name, seen, data) ==
    [kind |-> kind, st |-> st, by |-> by, listId |-> listId,
     movie |-> movie, name |-> name, seen |-> seen, data |-> data]

\* pending without its k-th handler
Dropped(ops, k) ==
    [i \in 1..(Len(ops) - 1) |-> IF i < k THEN ops[i] ELSE ops[i + 1]]

\* part_000:188: fetchUserLists(userId) at its await
FetchOp(userId) ==
    Op("fetchUserLists", "select", userId, 0, NoPageMovie, "", <<>>, <<>>)

\* the state of the page and of the match harness while the POST handler
\* is looked at on its own
PageAtRest ==
    /\ user = Null
    /\ userLists = <<>>
    /\ error = Null
    /\ toast = NoToast
    /\ activeTab = "recommendations"
    /\ showListModal = FALSE
    /\ currentMovie = NoPageMovie
    /\ editingListId = 0
    /\ user_movie_lists = InitialLists
    /\ pending = <<>>
    /\ clicks = 0

-----------------------------------------------------------------------------
(* The POST handler                                                        *)

Init ==
    /\ env \in Envs
    /\ req \in Requests
    /\ pc = "start"
    /\ bodyRead = FALSE
    /\ called = {}
    /\ responses = <<>>
    /\ textResponse = <<>>
    /\ movieTitles = <<>>
    /\ tasks = <<>>
    /\ movieDetailsResults = <<>>
    /\ validMovies = <<>>
    /\ etasks = <<>>
    /\ prefs = InitialPrefs
    /\ upserts = NoUpserts
    /\ logged = {}
    /\ parseIn = <<>>
    /\ parseOut = [ok |-> FALSE, titles |-> <<>>, message |-> "not run"]
    /\ MatchAtRest
    /\ PageAtRest

\* return NextResponse.json(...)
Respond(r) ==
    /\ responses' = Append(responses, r)
    /\ pc' = "done"

\* route.js:268-273: the outer catch
Throw(message) == Respond(ExceptionResponse(message))

\* route.js:70-82: the oracle call is issued
CallOracle ==
    /\ called' = called \cup {"oracle"}
    /\ pc' = "awaitOracle"
    /\ UNCHANGED responses

\* route.js:9-41: the credential checks, then request.json() is called
Start ==
    /\ pc = "start"
    /\ IF ConfigError(env) # ""
       THEN /\ Respond(ConfigResponse(ConfigError(env)))
            /\ UNCHANGED bodyRead
       ELSE /\ bodyRead' = TRUE
            /\ pc' = "awaitBody"
            /\ UNCHANGED responses
    /\ UNCHANGED <<env, req, called, movieTitles, tasks, movieDetailsResults,
                   validMovies, etasks, storeVars,
                   textResponse, parseIn, parseOut,
                   matchVars, pageVars>>

\* route.js:41-82: the body has settled; validation, then the preference
\* upsert or the oracle call
BodySettled ==
    /\ pc = "awaitBody"
    /\ CASE AfterBody(req) = "throw" ->
              Throw(BodyErrorMessage) /\ UNCHANGED called
         [] AfterBody(req) = "reject" ->
              Respond(GenreResponse) /\ UNCHANGED called
         [] AfterBody(req) = "savePreferences" ->
              /\ called' = called \cup {"user_preferences"}
              /\ pc' = "awaitPreferences"
              /\ UNCHANGED responses
         [] OTHER -> CallOracle
    /\ upserts' = IF AfterBody(req) = "savePreferences"
                  THEN Issued(upserts, "user_preferences", req.userId)
                  ELSE upserts
    /\ UNCHANGED <<prefs, logged>>
    /\ UNCHANGED <<env, req, bodyRead, movieTitles, tasks,
                   movieDetailsResults, validMovies, etasks,
                   textResponse, parseIn, parseOut,
                   matchVars, pageVars>>

\* route.js:51-68: the preference upsert has settled
PreferencesSettled ==
    /\ pc = "awaitPreferences"
    /\ \E outcome \in StoreOutcomes :
         /\ prefs' = IF outcome = "ok"
                     THEN Upsert(prefs, PreferencePayload(req))
                     ELSE prefs
         /\ logged' = logged \cup PreferencesLogged(outcome)
         /\ IF AfterPreferenceSave(outcome) = "generate"
            THEN CallOracle
            ELSE Throw("preference upsert failed") /\ UNCHANGED called
    /\ UNCHANGED upserts
    /\ UNCHANGED <<env, req, bodyRead, movieTitles, tasks,
                   movieDetailsResults, validMovies, etasks,
                   textResponse, parseIn, parseOut,
                   matchVars, pageVars>>

\* route.js:82-84: generateContent rejects, or text() throws
OracleFails ==
    /\ pc = "awaitOracle"
    /\ \E e \in OracleErrors : Throw(e)
    /\ UNCHANGED <<env, req, bodyRead, called, movieTitles, tasks,
                   movieDetailsResults, validMovies, etasks, storeVars,
                   textResponse, parseIn, parseOut,
                   matchVars, pageVars>>

\* route.js:82-133: the oracle answers; the text is parsed and one search
\* callback per title runs up to its stagger delay
OracleAnswers ==
    /\ pc = "awaitOracle"
    /\ \E text \in OracleTexts :
         LET parsed == ParseTitles(Trim(text))
         IN  /\ textResponse' = Trim(text)
             /\ IF ~parsed.ok
                THEN /\ Respond(ParseResponse(parsed.message, Trim(text)))
                     /\ UNCHANGED <<movieTitles, tasks>>
                ELSE /\ movieTitles' = parsed.titles
                     /\ tasks' = [i \in 1..Len(parsed.titles) |-> NewTask(i - 1)]
                     /\ pc' = "awaitSearches"
                     /\ UNCHANGED responses
    /\ UNCHANGED <<env, req, bodyRead, called, movieDetailsResults,
                   validMovies, etasks, storeVars, parseIn, parseOut,
                   matchVars, pageVars>>

-----------------------------------------------------------------------------
(* Resolution: the search callbacks of route.js:131-171                    *)

searchFrame == <<env, req, bodyRead, responses, movieTitles,
                 movieDetailsResults, validMovies, etasks, storeVars,
                   textResponse, parseIn, parseOut,
                   matchVars, pageVars>>

\* route.js:121: axios.get is called for the search of title i
IssueSearch(i) ==
    /\ tasks' = [tasks EXCEPT ![i].st = "searching", ![i].attempts = @ + 1]
    /\ called' = called \cup {"search"}

\* route.js:133-136: the stagger delay of task i has elapsed
StaggerElapsed(i) ==
    /\ pc = "awaitSearches"
    /\ tasks[i].st = "stagger"
    /\ IssueSearch(i)
    /\ pc' = pc
    /\ UNCHANGED searchFrame

\* route.js:122-125 and 167-170: an attempt of task i fails
SearchFails(i) ==
    /\ pc = "awaitSearches"
    /\ tasks[i].st = "searching"
    /\ \E e \in CatalogErrors :
         IF IsLastAttempt(tasks[i].attempts)
         THEN tasks' = [tasks EXCEPT ![i].st = "done",
                                     ![i].fails = @ + 1,
                                     ![i].lastError = e,
                                     ![i].ret = "threw",
                                     ![i].caught = Rethrown(e),
                                     ![i].result = NoMovie]
         ELSE tasks' = [tasks EXCEPT ![i].st = "retryDelay",
                                     ![i].fails = @ + 1,
                                     ![i].lastError = e,
                                     ![i].waitedMs = @ + RetryDelayMs]
    /\ pc' = pc
    /\ UNCHANGED called
    /\ UNCHANGED searchFrame

\* route.js:119-126: delay(500) has elapsed; the loop goes round, and a
\* loop that ends returns undefined, whose data property cannot be read
RetryDelayElapsed(i) ==
    /\ pc = "awaitSearches"
    /\ tasks[i].st = "retryDelay"
    /\ IF tasks[i].attempts < retries
       THEN IssueSearch(i)
       ELSE /\ tasks' = [tasks EXCEPT ![i].st = "done",
                                      ![i].ret = "undefined",
                                      ![i].caught = "TypeError",
                                      ![i].result = NoMovie]
            /\ UNCHANGED called
    /\ pc' = pc
    /\ UNCHANGED searchFrame

\* route.js:121 and 150-170: an attempt of task i succeeds and the callback
\* picks its movie
SearchReturns(i) ==
    /\ pc = "awaitSearches"
    /\ tasks[i].st = "searching"
    /\ \E data \in SearchData :
         tasks' = [tasks EXCEPT
            ![i].st = "done",
            ![i].ret = "returned",
            ![i].first = IF data.results = <<>> THEN Absent
                         ELSE data.results[1].title,
            ![i].caught = IF FindThrows(data, movieTitles[i])
                          THEN "TypeError" ELSE "",
            ![i].result = CallbackResult(data, movieTitles[i])]
    /\ pc' = pc
    /\ UNCHANGED called
    /\ UNCHANGED searchFrame

\* a join that goes on as soon as one callback has returned
AllSettled_First(ts) == \E i \in 1..Len(ts) : ts[i].st = "done"

\* route.js:173: Promise.all resolves when every callback has returned
AllSettled(ts) == \A i \in 1..Len(ts) : ts[i].st = "done"

\* route.js:173-187: every search callback has returned; the valid movies
\* are kept and one enrichment callback per movie calls the details
AllSearchesDone ==
    /\ pc = "awaitSearches"
    /\ AllSettled(tasks)
    /\ LET results == [i \in 1..Len(tasks) |-> tasks[i].result]
           valid == FilterValid(results)
       IN  /\ movieDetailsResults' = results
           /\ validMovies' = valid
           /\ IF Len(valid) = 0
              THEN /\ Respond(NoResultsResponse)
                   /\ UNCHANGED <<etasks, called>>
              ELSE /\ etasks' = [j \in 1..Len(valid) |-> NewETask(valid[j])]
                   /\ called' = called \cup {"details"}
                   /\ pc' = "awaitEnrich"
                   /\ UNCHANGED responses
    /\ tasks' = <<>>
    /\ UNCHANGED <<env, req, bodyRead, movieTitles, textResponse,
                   storeVars, parseIn, parseOut,
                   matchVars, pageVars>>

-----------------------------------------------------------------------------
(* Enrichment: the callbacks of route.js:185-264                           *)

enrichFrame == <<env, req, bodyRead, responses, movieTitles, tasks,
                 movieDetailsResults, validMovies,
                   textResponse, parseIn, parseOut,
                   matchVars, pageVars>>

\* route.js:242-263: the details call of movie j fails
DetailsFails(j) ==
    /\ pc = "awaitEnrich"
    /\ etasks[j].st = "details"
    /\ IF AfterDetailsFailure = "partial"
       THEN /\ etasks' = [etasks EXCEPT
                 ![j].st = "done",
                 ![j].details = "failed",
                 ![j].record = PartialRecord(etasks[j].movie)]
            /\ pc' = pc
            /\ UNCHANGED responses
       ELSE /\ Throw("Request failed with status code 404")
            /\ UNCHANGED etasks
    /\ UNCHANGED called
    /\ UNCHANGED <<env, req, bodyRead, movieTitles, tasks,
                   movieDetailsResults, validMovies, storeVars,
                   textResponse, parseIn, parseOut,
                   matchVars, pageVars>>

\* route.js:187-195: the details call of movie j succeeds and the
\* providers call is issued
DetailsReturns(j) ==
    /\ pc = "awaitEnrich"
    /\ etasks[j].st = "details"
    /\ \E data \in DetailsData :
         etasks' = [etasks EXCEPT ![j].st = "providers",
                                  ![j].details = "ok",
                                  ![j].data = data]
    /\ called' = called \cup {"providers"}
    /\ pc' = pc
    /\ UNCHANGED storeVars
    /\ UNCHANGED enrichFrame

\* route.js:196-241: the providers call of movie j settles, movieData is
\* built, and the saved-movie upsert is issued when a userId was sent
ProvidersSettled(j) ==
    /\ pc = "awaitEnrich"
    /\ etasks[j].st = "providers"
    /\ \E outcome \in ProviderOutcomes :
         IF outcome = "failed" /\ AfterProvidersFailure # "continue"
         THEN etasks' = [etasks EXCEPT
                 ![j].st = "done",
                 ![j].providers = outcome,
                 ![j].record = PartialRecord(etasks[j].movie)]
         ELSE etasks' = [etasks EXCEPT
                 ![j].st = IF WantsMovieSave(req) THEN "saving" ELSE "done",
                 ![j].providers = outcome,
                 ![j].record = MovieData(etasks[j].movie, etasks[j].data,
                                         ProvidersOf(outcome))]
    /\ called' = IF \E k \in 1..Len(etasks) : etasks'[k].st = "saving"
                 THEN called \cup {"user_movies"} ELSE called
    /\ upserts' = IF etasks'[j].st = "saving"
                  THEN Issued(upserts, "user_movies",
                              <<req.userId, etasks[j].movie.id>>)
                  ELSE upserts
    /\ pc' = pc
    /\ UNCHANGED <<prefs, logged>>
    /\ UNCHANGED enrichFrame

\* AfterMovieSave without the inner catch of route.js:238-240: a thrown
\* error reaches the catch of route.js:242
AfterMovieSave_Uncaught(outcome) ==
    IF outcome = "threw" THEN "partial" ELSE "return"

\* route.js:236-241: how the callback ends when the saved-movie upsert has
\* settled with the given outcome
AfterMovieSave(outcome) == "return"

\* route.js:223-241: the saved-movie upsert of movie j settles
MovieSaveSettled(j) ==
    /\ pc = "awaitEnrich"
    /\ etasks[j].st = "saving"
    /\ \E outcome \in StoreOutcomes :
         /\ logged' = logged \cup MovieSaveLogged(outcome)
         /\ IF AfterMovieSave(outcome) = "return"
            THEN etasks' = [etasks EXCEPT ![j].st = "done"]
            ELSE etasks' = [etasks EXCEPT
                    ![j].st = "done",
                    ![j].record = PartialRecord(etasks[j].movie)]
    /\ pc' = pc
    /\ UNCHANGED <<called, prefs, upserts>>
    /\ UNCHANGED enrichFrame

\* route.js:184 and 267: every enrichment callback has returned
AllEnriched ==
    /\ pc = "awaitEnrich"
    /\ \A j \in 1..Len(etasks) : etasks[j].st = "done"
    /\ Respond(SuccessResponse([j \in 1..Len(etasks) |-> etasks[j].record]))
    /\ UNCHANGED <<env, req, bodyRead, called, movieTitles, tasks,
                   movieDetailsResults, validMovies, etasks, storeVars,
                   textResponse, parseIn, parseOut,
                   matchVars, pageVars>>

Next ==
    \/ Start
    \/ BodySettled
    \/ PreferencesSettled
    \/ OracleFails
    \/ OracleAnswers
    \/ \E i \in 1..Len(tasks) : StaggerElapsed(i)
    \/ \E i \in 1..Len(tasks) : SearchFails(i)
    \/ \E i \in 1..Len(tasks) : RetryDelayElapsed(i)
    \/ \E i \in 1..Len(tasks) : SearchReturns(i)
    \/ AllSearchesDone
    \/ \E j \in 1..Len(etasks) : DetailsFails(j)
    \/ \E j \in 1..Len(etasks) : DetailsReturns(j)
    \/ \E j \in 1..Len(etasks) : ProvidersSettled(j)
    \/ \E j \in 1..Len(etasks) : MovieSaveSettled(j)
    \/ AllEnriched

Spec == Init /\ [][Next]_vars

\* route.js:51-68 and 223-241: an awaited store upsert settles
StoreSettles ==
    \/ PreferencesSettled
    \/ \E j \in 1..Len(etasks) : MovieSaveSettled(j)

\* route.js:187-199: an awaited details or providers call settles; these
\* two axios.get calls are given no timeout
EnrichmentSettles ==
    \/ \E j \in 1..Len(etasks) : DetailsFails(j)
    \/ \E j \in 1..Len(etasks) : DetailsReturns(j)
    \/ \E j \in 1..Len(etasks) : ProvidersSettled(j)

\* route.js:119-148: a timer fires, or a search settles; the search is
\* called with timeout: 10000, so it settles whatever the endpoint does
SearchSettles ==
    \/ \E i \in 1..Len(tasks) : StaggerElapsed(i)
    \/ \E i \in 1..Len(tasks) : SearchFails(i)
    \/ \E i \in 1..Len(tasks) : RetryDelayElapsed(i)
    \/ \E i \in 1..Len(tasks) : SearchReturns(i)

\* the steps of the handler itself, the body read and the oracle call
HandlerSteps ==
    \/ Start
    \/ BodySettled
    \/ OracleFails
    \/ OracleAnswers
    \/ AllSearchesDone
    \/ AllEnriched

\* the handler where the oracle and the catalog always answer and the
\* store may leave an upsert unanswered for ever
SpecStoreSilent ==
    /\ Init /\ [][Next]_vars
    /\ WF_vars(HandlerSteps)
    /\ WF_vars(SearchSettles)
    /\ WF_vars(EnrichmentSettles)

\* the handler where the oracle and the store always answer, the search
\* always settles (by its timeout at the latest), and the details and
\* providers endpoints may leave a call unanswered for ever
SpecCatalogSilent ==
    /\ Init /\ [][Next]_vars
    /\ WF_vars(HandlerSteps)
    /\ WF_vars(SearchSettles)
    /\ WF_vars(StoreSettles)

-----------------------------------------------------------------------------
(* The parse block of route.js:84-109 on its own, over every oracle text   *)
(* of at most MaxTextLen tokens                                            *)

InitParse ==
    /\ env = FullEnv
    /\ req = [readable |-> TRUE, genre |-> "Sci-Fi", userId |-> Absent,
              savePreferences |-> FALSE, language |-> "en",
              additionalDetails |-> Absent]
    /\ pc = "parse"
    /\ bodyRead = FALSE
    /\ called = {}
    /\ responses = <<>>
    /\ textResponse = <<>>
    /\ movieTitles = <<>>
    /\ tasks = <<>>
    /\ movieDetailsResults = <<>>
    /\ validMovies = <<>>
    /\ etasks = <<>>
    /\ prefs = InitialPrefs
    /\ upserts = NoUpserts
    /\ logged = {}
    /\ parseIn \in SeqsUpTo(Tokens, MaxTextLen)
    /\ parseOut = [ok |-> FALSE, titles |-> <<>>, message |-> "not run"]
    /\ MatchAtRest
    /\ PageAtRest

\* route.js:84-109 applied to parseIn
ParseText ==
    /\ pc = "parse"
    /\ parseOut' = ParseTitles(Trim(parseIn))
    /\ pc' = "parsed"
    /\ UNCHANGED <<env, req, bodyRead, called, responses, textResponse,
                   movieTitles, tasks, movieDetailsResults, validMovies,
                   etasks, storeVars, parseIn, matchVars, pageVars>>

NextParse == ParseText

SpecParse == InitParse /\ [][NextParse]_vars

-----------------------------------------------------------------------------
(* The Home page: mount, sign-in and sign-out, and the list handlers.      *)
(* One action per run of a handler between two awaits.                     *)

handlerVars == <<env, req, pc, bodyRead, called, responses, textResponse,
                 movieTitles, tasks, movieDetailsResults, validMovies,
                 etasks, storeVars, parseIn, parseOut>>

\* the POST handler and the harnesses while the page is looked at
HandlerAtRest ==
    /\ env = FullEnv
    /\ req = [readable |-> TRUE, genre |-> "Sci-Fi", userId |-> Absent,
              savePreferences |-> FALSE, language |-> "en",
              additionalDetails |-> Absent]
    /\ bodyRead = FALSE
    /\ called = {}
    /\ responses = <<>>
    /\ textResponse = <<>>
    /\ movieTitles = <<>>
    /\ tasks = <<>>
    /\ movieDetailsResults = <<>>
    /\ validMovies = <<>>
    /\ etasks = <<>>
    /\ prefs = InitialPrefs
    /\ upserts = NoUpserts
    /\ logged = {}
    /\ parseIn = <<>>
    /\ parseOut = [ok |-> FALSE, titles |-> <<>>, message |-> "not run"]

\* part_000:118: the page is mounted and checkUser waits for getUser
InitPage ==
    /\ HandlerAtRest
    /\ MatchAtRest
    /\ pc = "page"
    /\ user = Null
    /\ userLists = <<>>
    /\ error = Null
    /\ toast = NoToast
    /\ activeTab = "recommendations"
    /\ showListModal = FALSE
    /\ currentMovie = NoPageMovie
    /\ editingListId = 0
    /\ user_movie_lists = InitialLists
    /\ pending = <<Op("checkUser", "getUser", Null, 0, NoPageMovie, "",
                      <<>>, <<>>)>>
    /\ clicks = 0

\* a catch block that shows the toast and leaves the error state
Catch_ToastOnly(message) ==
    /\ error' = error
    /\ toast' = Toast("error", message)

\* the catch block of a list handler: setError and an error toast
Catch(message) ==
    /\ error' = message
    /\ toast' = Toast("error", message)

\* the visitor calls one more handler
Click ==
    /\ clicks < MaxClicks
    /\ clicks' = clicks + 1

offPage == <<handlerVars, matchVars>>

\* part_000:119-122: getUser answers with the user of the session, if any
CheckUserSettled(k) ==
    /\ pending[k].kind = "checkUser"
    /\ pending[k].st = "getUser"
    /\ \E u \in {Null, "u1"} :
         IF u = Null
         THEN /\ pending' = Dropped(pending, k)
              /\ UNCHANGED user
         ELSE /\ user' = u
              /\ pending' = [pending EXCEPT ![k].st = "profile", ![k].by = u]
    /\ UNCHANGED <<userLists, error, toast, activeTab, showListModal,
                   currentMovie, editingListId, user_movie_lists, clicks>>
    /\ UNCHANGED offPage

\* part_000:148-150: the SIGNED_IN event of the auth listener
SignedIn(u) ==
    /\ user = Null
    /\ Click
    /\ user' = u
    /\ pending' = Append(pending, Op("SIGNED_IN", "profile", u, 0,
                                     NoPageMovie, "", <<>>, <<>>))
    /\ UNCHANGED <<userLists, error, toast, activeTab, showListModal,
                   currentMovie, editingListId, user_movie_lists>>
    /\ UNCHANGED offPage

\* part_000:123-139 and 151-167: the profile calls have settled;
\* fetchUserLists is called and not awaited
ProfileSettled(k) ==
    /\ pending[k].st = "profile"
    /\ pending' = [pending EXCEPT ![k] = FetchOp(pending[k].by)]
    /\ toast' = IF pending[k].kind = "SIGNED_IN"
                THEN Toast("success", "Successfully signed in!")
                ELSE toast
    /\ UNCHANGED <<user, userLists, error, activeTab, showListModal,
                   currentMovie, editingListId, user_movie_lists, clicks>>
    /\ UNCHANGED offPage

\* part_000:168-173: the SIGNED_OUT event of the auth listener
SignedOut ==
    /\ user # Null
    /\ Click
    /\ user' = Null
    /\ userLists' = <<>>
    /\ toast' = Toast("info", "Successfully signed out")
    /\ UNCHANGED <<error, activeTab, showListModal, currentMovie,
                   editingListId, user_movie_lists, pending>>
    /\ UNCHANGED offPage

\* part_000:188-203: the select of fetchUserLists settles
FetchSettled(k, outcome) ==
    /\ pending[k].kind = "fetchUserLists"
    /\ IF outcome = "ok"
         THEN /\ userLists' = SelectByOwner(user_movie_lists, pending[k].by)
              /\ UNCHANGED <<error, toast>>
         ELSE /\ Catch("Failed to load your movie lists")
              /\ UNCHANGED userLists
    /\ pending' = Dropped(pending, k)
    /\ UNCHANGED <<user, activeTab, showListModal, currentMovie,
                   editingListId, user_movie_lists, clicks>>
    /\ UNCHANGED offPage

\* part_000:562-584: the tab buttons, shown to a signed-in user
setActiveTab(tab) ==
    /\ Click
    /\ user # Null
    /\ activeTab # tab
    /\ activeTab' = tab
    /\ UNCHANGED <<user, userLists, error, toast, showListModal,
                   currentMovie, editingListId, user_movie_lists, pending>>
    /\ UNCHANGED offPage

\* part_000:338-353: Save to List on a movie card, shown to a signed-in user
handleSaveToNewList(movie) ==
    /\ Click
    /\ user # Null
    /\ ~(showListModal /\ currentMovie = movie)
    /\ currentMovie' = movie
    /\ showListModal' = TRUE
    /\ UNCHANGED <<user, userLists, error, toast, activeTab, editingListId,
                   user_movie_lists, pending>>
    /\ UNCHANGED offPage

\* part_000:871-875: New List on the lists tab
OpenNewListModal ==
    /\ Click
    /\ activeTab = "lists"
    /\ ~(showListModal /\ currentMovie = NoPageMovie)
    /\ currentMovie' = NoPageMovie
    /\ showListModal' = TRUE
    /\ UNCHANGED <<user, userLists, error, toast, activeTab, editingListId,
                   user_movie_lists, pending>>
    /\ UNCHANGED offPage

\* part_000:472-475, called from the card of a list of userLists
startEditingList(i) ==
    /\ Click
    /\ activeTab = "lists"
    /\ editingListId # userLists[i].id
    /\ editingListId' = userLists[i].id
    /\ UNCHANGED <<user, userLists, error, toast, activeTab, showListModal,
                   currentMovie, user_movie_lists, pending>>
    /\ UNCHANGED offPage

\* what a handler does after its update succeeded with the user of the
\* render it was called in: fetchUserLists(user.id) throws for a null user
AfterWrite(by) == IF by = Null THEN "catch" ELSE "fetch"

\* part_000:355-361 called from the Add button of the modal (1034-1043):
\* the select of the list is issued
AddCalled(i) ==
    /\ showListModal
    /\ currentMovie # NoPageMovie
    /\ Click
    /\ pending' = Append(pending,
           Op("handleSaveToExistingList", "select", user, userLists[i].id,
              currentMovie, "", <<>>, <<>>))
    /\ UNCHANGED <<user, userLists, error, toast, activeTab, showListModal,
                   currentMovie, editingListId, user_movie_lists>>
    /\ UNCHANGED offPage

\* part_000:357-376: the select settles; the movie is found in the list,
\* or the update is issued
AddSelectSettled(k, outcome) ==
    /\ pending[k].kind = "handleSaveToExistingList"
    /\ pending[k].st = "select"
    /\ IF outcome # "ok" \/ ~HasRow(user_movie_lists, pending[k].listId)
         THEN /\ Catch("Failed to add movie to list")
              /\ pending' = Dropped(pending, k)
         ELSE LET movies == user_movie_lists[pending[k].listId].movies
              IN  IF movieExists(movies, pending[k].movie)
                  THEN /\ toast' = Toast("info",
                                         "This movie is already in the list!")
                       /\ pending' = Dropped(pending, k)
                       /\ UNCHANGED error
                  ELSE /\ pending' = [pending EXCEPT
                              ![k].st = "update",
                              ![k].data = Append(movies, pending[k].movie)]
                       /\ UNCHANGED <<error, toast>>
    /\ UNCHANGED <<user, userLists, activeTab, showListModal, currentMovie,
                   editingListId, user_movie_lists, clicks>>
    /\ UNCHANGED offPage

\* part_000:369-388: the update settles
AddUpdateSettled(k, outcome) ==
    /\ pending[k].kind = "handleSaveToExistingList"
    /\ pending[k].st = "update"
    /\ IF outcome # "ok"
         THEN /\ Catch("Failed to add movie to list")
              /\ pending' = Dropped(pending, k)
              /\ UNCHANGED <<user_movie_lists, showListModal>>
         ELSE /\ user_movie_lists' =
                     UpdateMovies(user_movie_lists, pending[k].listId,
                                  pending[k].data)
              /\ IF AfterWrite(pending[k].by) = "catch"
                 THEN /\ Catch("Failed to add movie to list")
                      /\ pending' = Dropped(pending, k)
                      /\ UNCHANGED showListModal
                 ELSE /\ pending' = [pending EXCEPT
                             ![k] = FetchOp(pending[k].by)]
                      /\ toast' = Toast("success",
                                        "Movie added to list successfully!")
                      /\ showListModal' = FALSE
                      /\ UNCHANGED error
    /\ UNCHANGED <<user, userLists, activeTab, currentMovie, editingListId,
                   clicks>>
    /\ UNCHANGED offPage

\* part_000:441-447 called from a movie of a list card (517): the select
\* of the list is issued
RemoveCalled(i, m) ==
    /\ activeTab = "lists"
    /\ Click
    /\ pending' = Append(pending,
           Op("handleRemoveMovieFromList", "select", user, userLists[i].id,
              userLists[i].movies[m], "", <<>>, <<>>))
    /\ UNCHANGED <<user, userLists, error, toast, activeTab, showListModal,
                   currentMovie, editingListId, user_movie_lists>>
    /\ UNCHANGED offPage

\* part_000:443-459: the select settles and the update is issued
RemoveSelectSettled(k, outcome) ==
    /\ pending[k].kind = "handleRemoveMovieFromList"
    /\ pending[k].st = "select"
    /\ IF outcome # "ok" \/ ~HasRow(user_movie_lists, pending[k].listId)
         THEN /\ Catch("Failed to remove movie from list")
              /\ pending' = Dropped(pending, k)
         ELSE /\ pending' = [pending EXCEPT
                     ![k].st = "update",
                     ![k].data = WithoutMovie(
                         user_movie_lists[pending[k].listId].movies,
                         pending[k].movie.id)]
              /\ UNCHANGED <<error, toast>>
    /\ UNCHANGED <<user, userLists, activeTab, showListModal, currentMovie,
                   editingListId, user_movie_lists, clicks>>
    /\ UNCHANGED offPage

\* part_000:453-469: the update settles
RemoveUpdateSettled(k, outcome) ==
    /\ pending[k].kind = "handleRemoveMovieFromList"
    /\ pending[k].st = "update"
    /\ IF outcome # "ok"
         THEN /\ Catch("Failed to remove movie from list")
              /\ pending' = Dropped(pending, k)
              /\ UNCHANGED user_movie_lists
         ELSE /\ user_movie_lists' =
                     UpdateMovies(user_movie_lists, pending[k].listId,
                                  pending[k].data)
              /\ IF AfterWrite(pending[k].by) = "catch"
                 THEN /\ Catch("Failed to remove movie from list")
                      /\ pending' = Dropped(pending, k)
                 ELSE /\ pending' = [pending EXCEPT
                             ![k] = FetchOp(pending[k].by)]
                      /\ toast' = Toast("success",
                                    "Movie removed from list successfully!")
                      /\ UNCHANGED error
    /\ UNCHANGED <<user, userLists, activeTab, showListModal, currentMovie,
                   editingListId, clicks>>
    /\ UNCHANGED offPage

\* part_000:477-487 called from the Save button of the card being edited
\* (894-906), with a name that is not blank: the update is issued
SaveEditedCalled(name) ==
    /\ activeTab = "lists"
    /\ \E i \in 1..Len(userLists) : userLists[i].id = editingListId
    /\ Click
    /\ pending' = Append(pending,
           Op("saveEditedList", "update", user, editingListId, NoPageMovie,
              name, <<>>, <<>>))
    /\ UNCHANGED <<user, userLists, error, toast, activeTab, showListModal,
                   currentMovie, editingListId, user_movie_lists>>
    /\ UNCHANGED offPage

\* part_000:480-499: the update settles
SaveEditedSettled(k, outcome) ==
    /\ pending[k].kind = "saveEditedList"
    /\ IF outcome # "ok"
         THEN /\ Catch("Failed to update list name")
              /\ pending' = Dropped(pending, k)
              /\ UNCHANGED <<user_movie_lists, editingListId>>
         ELSE /\ user_movie_lists' =
                     UpdateName(user_movie_lists, pending[k].listId,
                                pending[k].name)
              /\ IF AfterWrite(pending[k].by) = "catch"
                 THEN /\ Catch("Failed to update list name")
                      /\ pending' = Dropped(pending, k)
                      /\ UNCHANGED editingListId
                 ELSE /\ pending' = [pending EXCEPT
                             ![k] = FetchOp(pending[k].by)]
                      /\ editingListId' = 0
                      /\ toast' = Toast("success",
                                        "List name updated successfully!")
                      /\ UNCHANGED error
    /\ UNCHANGED <<user, userLists, activeTab, showListModal, currentMovie,
                   clicks>>
    /\ UNCHANGED offPage

\* part_000:421-428 called from a list card (935), the visitor confirms:
\* the delete is issued
DeleteCalled(i) ==
    /\ activeTab = "lists"
    /\ Click
    /\ pending' = Append(pending,
           Op("handleDeleteList", "delete", user, userLists[i].id,
              NoPageMovie, "", userLists, <<>>))
    /\ UNCHANGED <<user, userLists, error, toast, activeTab, showListModal,
                   currentMovie, editingListId, user_movie_lists>>
    /\ UNCHANGED offPage

\* part_000:425-438: the delete settles; userLists is set from the
\* userLists of the render the handler was called in
DeleteSettled(k, outcome) ==
    /\ pending[k].kind = "handleDeleteList"
    /\ IF outcome # "ok"
         THEN /\ Catch("Failed to delete list")
              /\ UNCHANGED <<user_movie_lists, userLists>>
         ELSE /\ user_movie_lists' =
                     DeleteRow(user_movie_lists, pending[k].listId)
              /\ userLists' = WithoutList(pending[k].seen, pending[k].listId)
              /\ toast' = Toast("success", "List deleted successfully!")
              /\ UNCHANGED error
    /\ pending' = Dropped(pending, k)
    /\ UNCHANGED <<user, activeTab, showListModal, currentMovie,
                   editingListId, clicks>>
    /\ UNCHANGED offPage

\* part_000:391-404 called from the modal (1009) with a name that is not
\* blank: the insert is issued; user.id throws for a null user
CreateCalled(name) ==
    /\ showListModal
    /\ Click
    /\ IF user = Null
       THEN /\ Catch("Failed to create new list")
            /\ UNCHANGED pending
       ELSE /\ pending' = Append(pending,
                   Op("createNewList", "insert", user, 0, currentMovie,
                      name, userLists, <<>>))
            /\ UNCHANGED <<error, toast>>
    /\ UNCHANGED <<user, userLists, activeTab, showListModal, currentMovie,
                   editingListId, user_movie_lists>>
    /\ UNCHANGED offPage

\* the row the insert of part_000:396-402 makes
NewRow(table, op) ==
    Row(NextListId(table), op.by, op.name,
        IF op.movie # NoPageMovie THEN <<op.movie>> ELSE <<>>)

\* part_000:394-418: the insert settles
CreateSettled(k, outcome) ==
    /\ pending[k].kind = "createNewList"
    /\ IF outcome # "ok"
         THEN /\ Catch("Failed to create new list")
              /\ UNCHANGED <<user_movie_lists, userLists, showListModal>>
         ELSE LET row == NewRow(user_movie_lists, pending[k])
              IN  /\ user_movie_lists' =
                         [user_movie_lists EXCEPT ![row.id] = row]
                  /\ userLists' = <<row>> \o pending[k].seen
                  /\ showListModal' = FALSE
                  /\ toast' = Toast("success",
                         IF pending[k].movie # NoPageMovie
                         THEN "New list created and movie added successfully!"
                         ELSE "New list created successfully!")
                  /\ UNCHANGED error
    /\ pending' = Dropped(pending, k)
    /\ UNCHANGED <<user, activeTab, currentMovie, editingListId, clicks>>
    /\ UNCHANGED offPage

NextPage ==
    \/ \E k \in 1..Len(pending) : CheckUserSettled(k)
    \/ \E u \in Users : SignedIn(u)
    \/ \E k \in 1..Len(pending) : ProfileSettled(k)
    \/ SignedOut
    \/ \E k \in 1..Len(pending), outcome \in StoreOutcomes :
         FetchSettled(k, outcome)
    \/ \E tab \in {"recommendations", "lists"} : setActiveTab(tab)
    \/ \E movie \in PageMovies : handleSaveToNewList(movie)
    \/ OpenNewListModal
    \/ \E i \in 1..Len(userLists) : startEditingList(i)
    \/ \E i \in 1..Len(userLists) : AddCalled(i)
    \/ \E k \in 1..Len(pending), outcome \in StoreOutcomes :
         AddSelectSettled(k, outcome)
    \/ \E k \in 1..Len(pending), outcome \in StoreOutcomes :
         AddUpdateSettled(k, outcome)
    \/ \E i \in 1..Len(userLists) :
         \E m \in 1..Len(userLists[i].movies) : RemoveCalled(i, m)
    \/ \E k \in 1..Len(pending), outcome \in StoreOutcomes :
         RemoveSelectSettled(k, outcome)
    \/ \E k \in 1..Len(pending), outcome \in StoreOutcomes :
         RemoveUpdateSettled(k, outcome)
    \/ \E name \in Names : SaveEditedCalled(name)
    \/ \E k \in 1..Len(pending), outcome \in StoreOutcomes :
         SaveEditedSettled(k, outcome)
    \/ \E i \in 1..Len(userLists) : DeleteCalled(i)
    \/ \E k \in 1..Len(pending), outcome \in StoreOutcomes :
         DeleteSettled(k, outcome)
    \/ \E name \in Names : CreateCalled(name)
    \/ \E k \in 1..Len(pending), outcome \in StoreOutcomes :
         CreateSettled(k, outcome)

SpecPage == InitPage /\ [][NextPage]_vars


-----------------------------------------------------------------------------
(* The search callback on its own                                          *)

InitMatch ==
    /\ HandlerAtRest
    /\ PageAtRest
    /\ pc = "match"
    /\ matchIn \in MatchInputs
    /\ matchOut = NoMovie

\* route.js:131-171 for the title and the search outcome of matchIn: the
\* catch of route.js:167 returns null when fetchWithRetry threw
ResolveTitle ==
    /\ pc = "match"
    /\ matchOut' = IF matchIn.search = "returned"
                   THEN CallbackResult(matchIn.data, matchIn.title)
                   ELSE NoMovie
    /\ pc' = "matched"
    /\ UNCHANGED <<env, req, bodyRead, called, responses, textResponse,
                   movieTitles, tasks, movieDetailsResults, validMovies,
                   etasks, storeVars, parseIn, parseOut, matchIn, pageVars>>

NextMatch == ResolveTitle

SpecMatch == InitMatch /\ [][NextMatch]_vars


-----------------------------------------------------------------------------
(* Properties                                                              *)

Finished == pc = "done"

\* the response of a finished request
TheResponse == responses[1]

AllCredentials == \A c \in Credentials : env[c]

ExternalCalls == {"oracle", "search", "details", "providers",
                  "user_preferences", "user_movies"}

\* C1: a request with all credentials set and a missing or empty genre
\* makes no oracle call, no catalog call and no store write, and is
\* answered with status 400 and the body {error: "Genre is required"}.
C1_MissingGenreRejected ==
    (AllCredentials /\ req.readable /\ req.genre \in {Absent, ""}) =>
        /\ called \cap ExternalCalls = {}
        /\ pc \in {"start", "awaitBody", "done"}
        /\ Finished =>
             /\ Len(responses) = 1
             /\ TheResponse.status = 400
             /\ TheResponse.fields = {"error"}
             /\ TheResponse.error = "Genre is required"

C1_Witness ==
    /\ Finished
    /\ AllCredentials
    /\ req.readable
    /\ req.genre = ""
    /\ req.savePreferences
    /\ req.userId = "u1"
    /\ TheResponse.status = 400

\* C2: when a credential is absent the handler answers with a status-500
\* configuration error without reading the body and without any oracle,
\* catalog or store call, whatever the request body is.
C2_CredentialsFirst ==
    ~AllCredentials =>
        /\ ~bodyRead
        /\ called \cap ExternalCalls = {}
        /\ pc \in {"start", "done"}
        /\ Finished =>
             /\ Len(responses) = 1
             /\ TheResponse.status = 500
             /\ TheResponse.fields = {"error", "details"}
             /\ TheResponse.error \in {"Configuration Error (Supabase)",
                                       "Configuration Error (Gemini)",
                                       "Configuration Error (TMDB)"}
             /\ (~env["supabaseUrl"] \/ ~env["supabaseKey"])
                  => TheResponse.error = "Configuration Error (Supabase)"

C2_Witness ==
    /\ Finished
    /\ ~env["tmdbApiKey"]
    /\ env["supabaseUrl"] /\ env["supabaseKey"] /\ env["geminiApiKey"]
    /\ req.readable
    /\ req.genre = Absent
    /\ ~bodyRead
    /\ TheResponse.status = 500
    /\ TheResponse.error = "Configuration Error (TMDB)"

\* the enrichment defaults of a degraded record
IsDegraded(record) ==
    /\ record.runtime = 0
    /\ record.genres = <<>>
    /\ record.credits = [cast |-> <<>>, crew |-> <<>>]
    /\ record.videos = <<>>
    /\ record.similar = <<>>
    /\ record.providers = "null"
    /\ record.status = "Unknown"
    /\ record.tagline = ""

\* C3: a failing details call never aborts the batch: the response is a
\* success with one record per resolved movie; the record of a movie whose
\* details call failed has the enrichment defaults and the id and title of
\* its search result, and the record of every other movie is the one built
\* from that movie's own details and providers outcomes.
C3_DetailFailureDegrades ==
    (Finished /\ validMovies # <<>>) =>
        /\ Len(responses) = 1
        /\ TheResponse.status = 200
        /\ Len(TheResponse.movies) = Len(validMovies)
        /\ \A j \in 1..Len(validMovies) :
             IF etasks[j].details = "failed"
             THEN /\ IsDegraded(TheResponse.movies[j])
                  /\ TheResponse.movies[j].id = validMovies[j].id
                  /\ TheResponse.movies[j].title = validMovies[j].title
             ELSE TheResponse.movies[j] =
                    MovieData(validMovies[j], etasks[j].data,
                              ProvidersOf(etasks[j].providers))

C3_Witness ==
    /\ Finished
    /\ Len(validMovies) = 2
    /\ etasks[1].details = "failed"
    /\ etasks[2].details = "ok"
    /\ etasks[2].data = FullDetails
    /\ TheResponse.status = 200
    /\ IsDegraded(TheResponse.movies[1])
    /\ TheResponse.movies[2].runtime = 148

\* C4: fetchWithRetry issues at most 3 attempts; it returns at the first
\* attempt that succeeds, all attempts before it having failed; after 3
\* failed attempts it throws the error of the last attempt unchanged; it
\* has waited 500 ms once after every failed attempt that was not the
\* third.
C4_RetryPolicy ==
    \A i \in 1..Len(tasks) :
        LET t == tasks[i]
        IN  /\ t.attempts <= 3
            /\ t.st = "searching" =>
                 /\ t.fails = t.attempts - 1
                 /\ t.waitedMs = 500 * t.fails
            /\ t.st = "retryDelay" =>
                 /\ t.fails = t.attempts
                 /\ t.attempts < 3
                 /\ t.waitedMs = 500 * t.fails
            /\ t.st = "done" =>
                 \/ /\ t.ret = "returned"
                    /\ t.fails = t.attempts - 1
                    /\ t.waitedMs = 500 * (t.attempts - 1)
                 \/ /\ t.ret = "threw"
                    /\ t.attempts = 3
                    /\ t.fails = 3
                    /\ t.waitedMs = 1000
                    /\ t.caught = t.lastError
                    /\ t.caught \in CatalogErrors

C4_Witness ==
    /\ Len(tasks) = 2
    /\ tasks[1].st = "done"
    /\ tasks[1].ret = "threw"
    /\ tasks[1].attempts = 3
    /\ tasks[1].caught = "Request failed with status code 429"
    /\ tasks[2].st = "done"
    /\ tasks[2].ret = "returned"
    /\ tasks[2].attempts = 2
    /\ tasks[2].result # NoMovie

AllDropped ==
    /\ movieDetailsResults # <<>>
    /\ \A i \in 1..Len(movieDetailsResults) : movieDetailsResults[i] = NoMovie

\* C5: a finished request has the 404 no-results response exactly when
\* resolution ended with every title dropped; then no details, providers
\* or saved-movie call was made; when a title survived, the request
\* succeeds although other titles were dropped.
C5_NoResultsIffAllDropped ==
    Finished =>
        /\ TheResponse.status = 404 <=> AllDropped
        /\ AllDropped =>
             /\ TheResponse.error = "No movies found matching your criteria"
             /\ called \cap {"details", "providers", "user_movies"} = {}
        /\ (movieDetailsResults # <<>> /\ ~AllDropped) =>
             TheResponse.status = 200

C5_Witness ==
    /\ Finished
    /\ Len(movieDetailsResults) = 2
    /\ AllDropped
    /\ TheResponse.status = 404

C5_WitnessSurvivor ==
    /\ Finished
    /\ Len(movieDetailsResults) = 2
    /\ movieDetailsResults[1] = NoMovie
    /\ movieDetailsResults[2] # NoMovie
    /\ TheResponse.status = 200

Survivors == {i \in 1..Len(movieDetailsResults) : movieDetailsResults[i] # NoMovie}

\* the place among the survivors of the title at index i
Rank(i) == Cardinality({k \in Survivors : k <= i})

\* the movie a search callback returns carries a title that matches its
\* oracle title case-insensitively, or the title of the first search result
C6_Resolved ==
    \A i \in 1..Len(tasks) :
        (tasks[i].st = "done" /\ tasks[i].result # NoMovie) =>
            /\ movieTitles[i] \in Titles
            /\ \/ toLowerCase(tasks[i].result.title) = toLowerCase(movieTitles[i])
               \/ tasks[i].result.title = tasks[i].first

\* the barrier of route.js:173 keeps one result per title, in title order
C6_Joined ==
    (pc = "awaitSearches" /\ pc' # "awaitSearches") =>
        /\ Len(tasks) = Len(movieTitles)
        /\ movieDetailsResults' = [i \in 1..Len(tasks) |-> tasks[i].result]

\* a success response has one record per surviving title, in title order
C6_Response ==
    (Finished /\ TheResponse.status = 200) =>
        /\ Len(TheResponse.movies) = Cardinality(Survivors)
        /\ Len(TheResponse.movies) <= Len(movieTitles)
        /\ Len(movieDetailsResults) = Len(movieTitles)
        /\ \A i \in Survivors :
             /\ TheResponse.movies[Rank(i)].id = movieDetailsResults[i].id
             /\ TheResponse.movies[Rank(i)].title = movieDetailsResults[i].title

\* C6: for an oracle array of N titles the success response holds exactly
\* one record per title that survived resolution, at most N, in the order
\* of the titles, and the title of each record matches its source title
\* case-insensitively or is the title of the first search result for it.
C6_OneRecordPerSurvivor ==
    /\ []C6_Resolved
    /\ [][C6_Joined]_vars
    /\ []C6_Response

C6_Witness ==
    /\ Finished
    /\ TheResponse.status = 200
    /\ movieTitles = <<"Up", "HEAT">>
    /\ movieDetailsResults[1] = NoMovie
    /\ Len(TheResponse.movies) = 1
    /\ TheResponse.movies[1].title = "Heat"

ProseToks == {"word"} \cup WhiteToks \cup FenceToks

\* the tokens i..j of text are a well-formed non-empty JSON array of title
\* strings, and every token outside them is prose, white space or a fence
HoldsArray(text, i, j) ==
    /\ 1 <= i /\ i < j /\ j <= Len(text)
    /\ text[i] = "["
    /\ text[j] = "]"
    /\ JSONParse(SubSeq(text, i, j)).ok
    /\ JSONParse(SubSeq(text, i, j)).elems # <<>>
    /\ \A k \in 1..Len(JSONParse(SubSeq(text, i, j)).elems) :
         JSONParse(SubSeq(text, i, j)).elems[k] \in Titles
    /\ \A k \in 1..Len(text) : (k < i \/ k > j) => text[k] \in ProseToks

\* C7: for every oracle text that holds a well-formed non-empty JSON array
\* of title strings, possibly inside code fences and surrounded by prose,
\* the parse block returns exactly that array.
C7_ParserReturnsArray ==
    pc = "parsed" =>
        \A i, j \in 1..Len(parseIn) :
            HoldsArray(parseIn, i, j) =>
                /\ parseOut.ok
                /\ parseOut.titles = JSONParse(SubSeq(parseIn, i, j)).elems

\* the same for arrays written on one line: this part holds
C7_OneLineArrayParsed ==
    pc = "parsed" =>
        \A i, j \in 1..Len(parseIn) :
            (HoldsArray(parseIn, i, j) /\ \A k \in i..j : parseIn[k] # "\n") =>
                /\ parseOut.ok
                /\ parseOut.titles = JSONParse(SubSeq(parseIn, i, j)).elems

IsParseFailure(r) == r.error = "Failed to parse movie recommendations"

\* the oracle answered and its text was read
OracleAnswered == pc \in {"awaitSearches", "awaitEnrich"} \/ (Finished /\ "search" \in called)
                  \/ (Finished /\ IsParseFailure(TheResponse))

\* the text has no bracketed span on one line, or the span is no JSON, or
\* it is the empty array
Unusable(text) ==
    LET match == RegexMatch(Trim(StripFences(text)))
    IN  \/ match = <<>>
        \/ ~JSONParse(match).ok
        \/ JSONParse(match).elems = <<>>

\* the body carries text that came from the oracle or the catalog
CarriesUpstreamText(r) ==
    \/ "response" \in r.fields
    \/ \E m \in UpstreamMessages : r.error = "API route error: " \o m
    \/ \E m \in UpstreamMessages : r.details = m

\* a request whose oracle text is unusable ends with the status-500
\* parse-failure response carrying the text, and no catalog call is made
C8_ParseFailure ==
    /\ (OracleAnswered /\ Unusable(textResponse)) =>
          /\ Finished
          /\ IsParseFailure(TheResponse)
    /\ (Finished /\ IsParseFailure(TheResponse)) =>
          /\ Unusable(textResponse)
          /\ Len(responses) = 1
          /\ TheResponse.status = 500
          /\ TheResponse.fields = {"error", "details", "response"}
          /\ TheResponse.response = textResponse
          /\ called \cap {"search", "details", "providers", "user_movies"} = {}

\* C8 as stated: in addition, no response of another kind carries raw
\* upstream text.
C8_OnlyParseFailureCarriesText ==
    /\ C8_ParseFailure
    /\ (Finished /\ ~IsParseFailure(TheResponse)) =>
          ~CarriesUpstreamText(TheResponse)

\* C8: a request whose oracle text has no bracketed array, is no JSON or
\* is the empty array ends with the status-500 parse-failure response that
\* carries the oracle text, and no catalog call is made; no response of
\* another kind carries the oracle text, and the only other upstream text
\* in a response is the message of the thrown error in the label of the
\* status-500 response of the outer catch.
C8_ParseFailureCarriesText ==
    /\ C8_ParseFailure
    /\ (Finished /\ ~IsParseFailure(TheResponse)) =>
          /\ "response" \notin TheResponse.fields
          /\ TheResponse.response = <<>>
          /\ CarriesUpstreamText(TheResponse) =>
               /\ TheResponse.status = 500
               /\ TheResponse.details = "Internal server error"
               /\ \E m \in OracleErrors :
                    TheResponse.error = "API route error: " \o m

C8_Witness ==
    /\ Finished
    /\ textResponse = <<"[", "\n", Quote("Up"), "\n", "]">>
    /\ IsParseFailure(TheResponse)
    /\ TheResponse.response = textResponse
    /\ TheResponse.details = "No valid JSON array found in Gemini response"

\* C9: when the providers lookup of a movie fails or has no entry for the
\* region, the movie's record has providers null and every other field is
\* the value of the successful details call (its default when the details
\* lack the property); the response is a success and holds that record.
C9_MissingProviders ==
    \A j \in 1..Len(etasks) :
        (etasks[j].providers \in {"failed", "none"}) =>
            LET rec == etasks[j].record
                data == etasks[j].data
            IN  /\ etasks[j].st \in {"saving", "done"}
                /\ etasks[j].details = "ok"
                /\ rec.providers = "null"
                /\ rec.id = etasks[j].movie.id
                /\ rec.title = etasks[j].movie.title
                /\ IF data = FullDetails
                   THEN /\ rec.runtime = 148
                        /\ rec.genres = FullDetails.genres
                        /\ rec.credits = FullDetails.credits
                        /\ rec.videos = FullDetails.videos
                        /\ rec.similar = FullDetails.similar
                        /\ rec.status = "Released"
                        /\ rec.tagline = "tagline"
                   ELSE IsDegraded(rec)
                /\ Finished =>
                     /\ TheResponse.status = 200
                     /\ TheResponse.movies[j] = rec

C9_Witness ==
    /\ Finished
    /\ Len(etasks) = 2
    /\ etasks[1].providers = "failed"
    /\ etasks[2].providers = "none"
    /\ etasks[1].data = FullDetails
    /\ TheResponse.status = 200
    /\ TheResponse.movies[1].providers = "null"
    /\ TheResponse.movies[1].runtime = 148
    /\ TheResponse.movies[1].status = "Released"

IsErrorBody(r) == "error" \in r.fields /\ r.error # Absent /\ r.movies = <<>>

\* C10: a request gets at most one response and a finished request exactly
\* one; the handler is never stuck before it; the response is a 200 with a
\* non-empty array of records, or an error object with status 500 for a
\* missing credential, 400 for a missing genre, 500 for a parse failure,
\* 404 for no valid movie, 500 for an exception, an unreadable body
\* included.
C10_OneResponse ==
    /\ Len(responses) <= 1
    /\ Finished <=> Len(responses) = 1
    /\ ~Finished => ENABLED Next
    /\ Finished =>
         LET r == TheResponse
         IN  /\ \/ /\ r.status = 200
                   /\ r.fields = {}
                   /\ r.movies # <<>>
                   /\ AllCredentials /\ req.readable /\ ~Falsy(req.genre)
                \/ /\ r.status = 500
                   /\ IsErrorBody(r)
                   /\ r.error \in {"Configuration Error (Supabase)",
                                   "Configuration Error (Gemini)",
                                   "Configuration Error (TMDB)"}
                   /\ ~AllCredentials
                \/ /\ r.status = 400
                   /\ IsErrorBody(r)
                   /\ r.error = "Genre is required"
                   /\ AllCredentials /\ req.readable /\ Falsy(req.genre)
                \/ /\ r.status = 500
                   /\ IsErrorBody(r)
                   /\ IsParseFailure(r)
                   /\ Unusable(textResponse)
                \/ /\ r.status = 404
                   /\ IsErrorBody(r)
                   /\ r.error = "No movies found matching your criteria"
                   /\ AllDropped
                \/ /\ r.status = 500
                   /\ IsErrorBody(r)
                   /\ r.details = "Internal server error"
                   /\ \/ ~req.readable
                      \/ "oracle" \in called /\ textResponse = <<>>
             /\ (AllCredentials /\ ~req.readable) =>
                  /\ r.status = 500
                  /\ r.error = "API route error: Unexpected end of JSON input"

C10_Witness ==
    /\ Finished
    /\ AllCredentials
    /\ ~req.readable
    /\ Len(responses) = 1
    /\ TheResponse.status = 500
    /\ TheResponse.details = "Internal server error"

-----------------------------------------------------------------------------
\* a response other than the success array
IsFailure(r) == r.status # 200

HasLabel(r) == "error" \in r.fields /\ r.error # Absent

HasDetails(r) == "details" \in r.fields /\ r.details # Absent

\* C11 as stated: every failure response of the handler (configuration,
\* validation, parse failure, no results, unhandled exception) has both an
\* error label and a details string.  The validation response of
\* route.js:45 has the label alone, so this fails.
C11_EveryFailureHasDetails ==
    (Finished /\ IsFailure(TheResponse)) =>
        HasLabel(TheResponse) /\ HasDetails(TheResponse)

\* C11 amended: every failure response of the handler has an error label;
\* the configuration, parse-failure, no-results and unhandled-exception
\* responses also have a details string, and the validation response
\* (status 400, missing genre) has the label and no details.
C11_FailureLabelAndDetails ==
    (Finished /\ IsFailure(TheResponse)) =>
        /\ HasLabel(TheResponse)
        /\ TheResponse.status \in {400, 404, 500}
        /\ TheResponse.status # 400 => HasDetails(TheResponse)
        /\ TheResponse.status = 400 =>
             /\ TheResponse.fields = {"error"}
             /\ TheResponse.details = Absent
             /\ Falsy(req.genre)

C11_Witness ==
    /\ Finished
    /\ TheResponse.status = 400
    /\ TheResponse.error = "Genre is required"
    /\ ~HasDetails(TheResponse)

\* a failure of each other kind is reached as well
C11_WitnessNoResults ==
    /\ Finished
    /\ TheResponse.status = 404
    /\ HasDetails(TheResponse)

-----------------------------------------------------------------------------
\* the record of an enrichment callback when its store write succeeds: it
\* depends on the catalog movie and on the details and providers calls only
RecordWithoutStore(t) ==
    IF t.details = "failed" THEN PartialRecord(t.movie)
    ELSE MovieData(t.movie, t.data, ProvidersOf(t.providers))

PreferenceUpsertSettled ==
    /\ upserts.user_preferences # EmptyBag
    /\ pc # "awaitPreferences"

\* C12: store-write failures are absorbed.  Whatever the outcome of the
\* preference upsert (success, error result, thrown error), the handler
\* goes on to the oracle call and no response comes from the upsert; and
\* whatever the outcome of each saved-movie upsert, the success response
\* holds for each movie the record built from the details and providers
\* calls alone, which is the record of the run whose store writes succeed.
C12_StoreFailuresAbsorbed ==
    /\ PreferenceUpsertSettled => "oracle" \in called
    /\ (Finished /\ TheResponse.status = 200) =>
         /\ Len(TheResponse.movies) = Len(etasks)
         /\ \A j \in 1..Len(etasks) :
              TheResponse.movies[j] = RecordWithoutStore(etasks[j])
    /\ (Finished /\ logged # {}) =>
         \/ TheResponse.status \in {200, 404}
         \/ IsParseFailure(TheResponse)
         \/ /\ TheResponse.details = "Internal server error"
            /\ textResponse = <<>>
            /\ \E e \in OracleErrors :
                 TheResponse = ExceptionResponse(e)

\* a run in which the preference upsert and a saved-movie upsert both
\* failed and the response is the success array with the full record
C12_Witness ==
    /\ Finished
    /\ logged = {PreferencesLabel, MovieSaveLabel}
    /\ prefs = InitialPrefs
    /\ TheResponse.status = 200
    /\ \E j \in 1..Len(etasks) :
         /\ etasks[j].details = "ok"
         /\ TheResponse.movies[j] # PartialRecord(etasks[j].movie)

-----------------------------------------------------------------------------
PastValidation == pc \notin {"start", "awaitBody"}

AsksForPreferenceSave ==
    /\ AllCredentials
    /\ req.readable
    /\ ~Falsy(req.genre)
    /\ req.savePreferences
    /\ ~Falsy(req.userId)

PreferenceUpsertSucceeded ==
    /\ PreferenceUpsertSettled
    /\ PreferencesLabel \notin logged

\* the row that holds the preferences of the request and nothing else
RequestRow(r) ==
    [user_id |-> r.userId, genre |-> r.genre, language |-> r.language,
     additional_details |->
         IF r.additionalDetails = Absent THEN Null ELSE r.additionalDetails]

\* the attempt part of C13: the preference upsert is issued exactly when
\* the request passes configuration and validation and carries both
\* savePreferences and a userId, at most once, keyed by that userId
C13_Attempted ==
    /\ PastValidation =>
         (upserts.user_preferences # EmptyBag <=> AsksForPreferenceSave)
    /\ BagCardinality(upserts.user_preferences) <= 1
    /\ BagToSet(upserts.user_preferences) \subseteq {req.userId}

\* the other users' rows are never touched
C13_OtherRowsUntouched ==
    \A u \in Users : u # req.userId => prefs[u] = InitialPrefs[u]

\* C13 as stated: the preference upsert keyed by user id is attempted
\* exactly when the request passes configuration and validation and
\* carries both savePreferences and a userId, at most once per request; it
\* writes the request's genre, language and free-text detail, fully
\* replacing the previous row of that user and touching no other row.
\* A request without additionalDetails leaves the earlier detail in the
\* row, so this fails.
C13_PreferenceUpsert ==
    /\ C13_Attempted
    /\ C13_OtherRowsUntouched
    /\ PreferenceUpsertSucceeded => prefs[req.userId] = RequestRow(req)

\* what does hold of the written row: the columns that were sent have the
\* request's values, and a column that was not sent keeps its value
C13_SentColumnsWritten ==
    PreferenceUpsertSucceeded =>
        \A c \in Columns :
            prefs[req.userId][c] =
                IF c \in SentColumns(PreferencePayload(req))
                THEN PreferencePayload(req)[c]
                ELSE InitialPrefs[req.userId][c]

\* a successful upsert of a request that gives additionalDetails
C13_WitnessReplaced ==
    /\ PreferenceUpsertSucceeded
    /\ req.additionalDetails # Absent
    /\ prefs[req.userId] = RequestRow(req)
    /\ prefs[req.userId] # InitialPrefs[req.userId]

-----------------------------------------------------------------------------
\* the saved-movie upsert keyed by (userId, id) has been issued
SaveIssued(id) == <<req.userId, id>> \in BagToSet(upserts.user_movies)

\* C14 as stated: when the request carries a userId, a saved-movie upsert
\* keyed by (userId, movie id) is attempted for every record of the
\* response, the records degraded to partial form included; when it
\* carries none, no saved-movie upsert is attempted.  The partial record
\* is returned from the catch of route.js:242, past the upsert, so this
\* fails.
C14_EveryRecordSaved ==
    (Finished /\ TheResponse.status = 200) =>
        IF WantsMovieSave(req)
        THEN \A j \in 1..Len(TheResponse.movies) :
                 SaveIssued(TheResponse.movies[j].id)
        ELSE upserts.user_movies = EmptyBag

\* what does hold: with a userId the upsert is issued for exactly the
\* records whose details call succeeded, and without a userId for none
C14_FullRecordsSaved ==
    /\ ~WantsMovieSave(req) => upserts.user_movies = EmptyBag
    /\ (Finished /\ TheResponse.status = 200 /\ WantsMovieSave(req)) =>
         \A j \in 1..Len(etasks) :
             SaveIssued(etasks[j].movie.id) <=>
                 \E k \in 1..Len(etasks) :
                     /\ etasks[k].movie.id = etasks[j].movie.id
                     /\ etasks[k].details = "ok"

\* a response with a partial record of a request that carries a userId
C14_WitnessPartial ==
    /\ Finished
    /\ TheResponse.status = 200
    /\ WantsMovieSave(req)
    /\ \E j \in 1..Len(etasks) :
         /\ etasks[j].details = "failed"
         /\ ~SaveIssued(etasks[j].movie.id)

-----------------------------------------------------------------------------
\* the list holds a movie with that id
HoldsId(movies, id) == \E j \in 1..Len(movies) : movies[j].id = id

AlreadyPresent == Toast("info", "This movie is already in the list!")

IsAdd(op) == op.kind = "handleSaveToExistingList"

\* the select of the add handler k has found its list, and the list
\* holds the movie
SelectFindsMovie(k) ==
    /\ IsAdd(pending[k])
    /\ pending[k].st = "select"
    /\ HasRow(user_movie_lists, pending[k].listId)
    /\ HoldsId(user_movie_lists[pending[k].listId].movies,
               pending[k].movie.id)

\* a step of the add handler k whose select finds the movie: the handler
\* ends without an update, the table is as before, and the toast is the
\* already-present one (or the failure one, when the select was rejected)
C15_NoOpStep ==
    \A k \in 1..Len(pending) :
        (SelectFindsMovie(k) /\ \E outcome \in StoreOutcomes :
                                     AddSelectSettled(k, outcome)) =>
            /\ pending' = Dropped(pending, k)
            /\ user_movie_lists' = user_movie_lists
            /\ userLists' = userLists
            /\ \/ toast' = AlreadyPresent /\ error' = error
               \/ toast'.type = "error"

\* an update of the add handler is issued only for a list that did not
\* hold the movie when it was read, and writes that list with the movie
\* appended
C15_UpdateOnlyWhenAbsent ==
    \A k \in 1..Len(pending) :
        (IsAdd(pending[k]) /\ pending[k].st = "update") =>
            LET data == pending[k].data
            IN  /\ data # <<>>
                /\ data[Len(data)] = pending[k].movie
                /\ ~HoldsId(SubSeq(data, 1, Len(data) - 1),
                            pending[k].movie.id)

\* C15: adding a movie to a list that already holds a movie with the same
\* id is a no-op: handleSaveToExistingList issues no update, shows the
\* already-present toast, and the movies of the list stay as they are; so
\* the same add made twice in sequence leaves the list as the first add
\* left it.
C15_DuplicateAddIsNoOp ==
    []C15_UpdateOnlyWhenAbsent /\ [][C15_NoOpStep]_vars

\* the same add made twice in sequence: Heat was added to the list of u1,
\* added again, and the list holds it once
C15_Witness ==
    /\ toast = AlreadyPresent
    /\ pending = <<>>
    /\ user_movie_lists[1].movies = <<PageMovie(1, "Up"), PageMovie(2, "Heat")>>

-----------------------------------------------------------------------------
\* the message the catch block of each list handler sets
FailureMessage(kind) ==
    CASE kind = "createNewList" -> "Failed to create new list"
      [] kind = "handleSaveToExistingList" -> "Failed to add movie to list"
      [] kind = "handleRemoveMovieFromList" ->
             "Failed to remove movie from list"
      [] kind = "saveEditedList" -> "Failed to update list name"
      [] kind = "handleDeleteList" -> "Failed to delete list"
      [] OTHER -> "Failed to load your movie lists"

ListHandlers == {"createNewList", "handleSaveToExistingList",
                 "handleRemoveMovieFromList", "saveEditedList",
                 "handleDeleteList"}

Rejections == StoreOutcomes \ {"ok"}

\* the store call the list handler k waits for settles with outcome
Settles(k, outcome) ==
    \/ CreateSettled(k, outcome)
    \/ AddSelectSettled(k, outcome)
    \/ AddUpdateSettled(k, outcome)
    \/ RemoveSelectSettled(k, outcome)
    \/ RemoveUpdateSettled(k, outcome)
    \/ SaveEditedSettled(k, outcome)
    \/ DeleteSettled(k, outcome)

\* the call is rejected: an error result or a thrown error, or a select
\* of a single row that finds no row
IsRejected(k, outcome) ==
    \/ outcome \in Rejections
    \/ /\ pending[k].st = "select"
       /\ ~HasRow(user_movie_lists, pending[k].listId)

\* C16: when the store rejects a call of a list operation (create, add
\* movie, remove movie, rename, delete), the handler sets the error state
\* to its failure message, shows an error toast and no success toast,
\* ends, and leaves userLists (and the table) as they were.
C16_RejectionSurfaced ==
    [][\A k \in 1..Len(pending) : \A outcome \in StoreOutcomes :
          (pending[k].kind \in ListHandlers
           /\ IsRejected(k, outcome) /\ Settles(k, outcome)) =>
              /\ error' = FailureMessage(pending[k].kind)
              /\ toast' = Toast("error", FailureMessage(pending[k].kind))
              /\ userLists' = userLists
              /\ user_movie_lists' = user_movie_lists
              /\ pending' = Dropped(pending, k)
              /\ showListModal' = showListModal
              /\ editingListId' = editingListId]_vars

\* the delete of a list shown on the page was rejected: the error state is
\* set, the toast is the error toast, and the list is still in userLists
C16_Witness ==
    /\ error = "Failed to delete list"
    /\ toast = Toast("error", "Failed to delete list")
    /\ pending = <<>>
    /\ userLists # <<>>
    /\ userLists = SelectByOwner(user_movie_lists, "u1")

-----------------------------------------------------------------------------
\* the lists the page shows to the signed-in user are that user's
ShownListsAreOwn ==
    user # Null => \A i \in 1..Len(userLists) : userLists[i].user_id = user

\* every call of a list handler made for a signed-in user is about a list
\* of that user
CallsAreOnOwnLists ==
    \A k \in 1..Len(pending) :
        (/\ pending[k].kind \in ListHandlers
         /\ pending[k].by # Null
         /\ HasRow(user_movie_lists, pending[k].listId)) =>
            user_movie_lists[pending[k].listId].user_id = pending[k].by

\* C17 as stated: a movie list is exclusively owned by its user: every
\* list read and every list mutation the page issues for the signed-in
\* user is restricted to the lists of that user, so no sequence of page
\* operations lets one user read or change another user's list.  A
\* fetchUserLists that settles after the sign-out leaves the lists of the
\* user who left on the page, and the handlers select, update and delete
\* by list id alone, so this fails.
C17_OwnListsOnly == ShownListsAreOwn /\ CallsAreOnOwnLists

\* u2 is shown the list of u1 and has its delete in flight
C17_WitnessForeignDelete ==
    /\ user = "u2"
    /\ \E k \in 1..Len(pending) :
         /\ pending[k].kind = "handleDeleteList"
         /\ pending[k].by = "u2"
         /\ user_movie_lists[pending[k].listId].user_id = "u1"

\* what does hold: fetchUserLists sets userLists to rows of the user it
\* was called for
C17_FetchFiltersByOwner ==
    [][\A k \in 1..Len(pending) :
          FetchSettled(k, "ok") =>
              \A i \in 1..Len(userLists') :
                  userLists'[i].user_id = pending[k].by]_vars

-----------------------------------------------------------------------------
\* the title of a result equals the oracle title but for case
EqualsIgnoringCase(resultTitle, title) ==
    /\ resultTitle # Absent
    /\ title # NonString
    /\ toLowerCase(resultTitle) = toLowerCase(title)

\* the movie the match rule chooses from a result list that is not empty
RuleChoice(results, title) ==
    LET equal == {k \in 1..Len(results) :
                     EqualsIgnoringCase(results[k].title, title)}
    IN  IF equal # {}
        THEN results[CHOOSE k \in equal : \A h \in equal : k <= h]
        ELSE results[1]

\* the title is dropped by the match rule
RuleDrops(in) ==
    \/ in.search # "returned"
    \/ ~in.data.hasResults
    \/ in.data.results = <<>>
    \/ Falsy(RuleChoice(in.data.results, in.title).title)

MatchRule(in, out) ==
    /\ out = NoMovie <=> RuleDrops(in)
    /\ ~RuleDrops(in) => out = RuleChoice(in.data.results, in.title)

\* C18 as stated: for a title whose search returns a result list that is
\* not empty, the chosen movie is the first result whose title equals the
\* oracle title but for case, or the first result when there is none; the
\* title is dropped exactly when the list is empty or missing, the chosen
\* movie has no title, or the search fails after all retries.  An oracle
\* title that is no string is dropped whenever a result has a title, so
\* this fails.
C18_MatchRule ==
    pc = "matched" => MatchRule(matchIn, matchOut)

\* what does hold: the rule, for the oracle titles that are strings
C18_MatchRuleForStrings ==
    (pc = "matched" /\ matchIn.title # NonString) =>
        MatchRule(matchIn, matchOut)

\* an exact match that is not the first result is chosen
C18_WitnessLaterMatch ==
    /\ pc = "matched"
    /\ matchIn.title = "Up"
    /\ Len(matchIn.data.results) = 2
    /\ matchIn.data.results[1].title = "Heat"
    /\ matchOut.title = "UP"

-----------------------------------------------------------------------------
EnrichmentCalls == {"details", "providers"}

\* the step in which the first details call is issued
EnrichmentStarts == "details" \notin called /\ "details" \in called'

\* a step taken while the searches are awaited
SearchStep == pc = "awaitSearches" /\ pc' = "awaitSearches"

C19_NoEnrichmentDuringSearches ==
    pc = "awaitSearches" =>
        /\ called \cap EnrichmentCalls = {}
        /\ etasks = <<>>

\* C19: all-complete barrier.  No details or providers call is issued
\* before the search callback of every oracle title has returned (with a
\* movie, or with null after a drop or after the last retry failed); and
\* a step of one title's search leaves the callbacks of the other titles
\* as they are, so that the result joined for each title is the one its
\* own callback returned.
C19_Barrier ==
    /\ []C19_NoEnrichmentDuringSearches
    /\ [][EnrichmentStarts =>
             /\ \A i \in 1..Len(tasks) : tasks[i].st = "done"
             /\ movieDetailsResults' =
                    [i \in 1..Len(tasks) |-> tasks[i].result]]_vars
    /\ [][SearchStep =>
             \E i \in 1..Len(tasks) :
                 \A j \in 1..Len(tasks) : j # i => tasks'[j] = tasks[j]]_vars

\* the search of the first title failed after its last retry, the second
\* title has its movie, and no enrichment
\* call has been made
C19_Witness ==
    /\ pc = "awaitSearches"
    /\ Len(tasks) = 2
    /\ tasks[1].st = "done"
    /\ tasks[1].ret = "threw"
    /\ tasks[1].fails = retries
    /\ tasks[2].st = "done"
    /\ tasks[2].result # NoMovie
    /\ called \cap EnrichmentCalls = {}

-----------------------------------------------------------------------------
\* the search of task i is in flight
InFlight(i) == tasks[i].st = "searching"

\* task i waits for its own timer and for nothing else: the step that
\* ends the wait can be taken whatever the other tasks are doing
OwnTimerOnly(i) ==
    /\ tasks[i].st = "stagger" => ENABLED StaggerElapsed(i)
    /\ tasks[i].st = "retryDelay" => ENABLED RetryDelayElapsed(i)

\* C20: the callback of the title at index i (counted from 0) waits
\* i * 200 ms of its own before its first search is issued: no search of
\* a task has been issued while it is in that wait, and the wait ends
\* without regard to the searches of the other titles, so searches of
\* different titles and their retries overlap.
C20_StaggeredAndIndependent ==
    pc = "awaitSearches" =>
        \A i \in 1..Len(tasks) :
            /\ tasks[i].delayMs = (i - 1) * 200
            /\ tasks[i].st = "stagger" <=> tasks[i].attempts = 0
            /\ OwnTimerOnly(i)

\* the second title's first search and a retry of the first title's
\* search are in flight together
C20_Witness ==
    /\ pc = "awaitSearches"
    /\ Len(tasks) = 2
    /\ InFlight(1)
    /\ tasks[1].attempts = 2
    /\ InFlight(2)
    /\ tasks[2].attempts = 1
    /\ tasks[2].delayMs = 200

\* the second title's search is issued while the first title's search,
\* issued earlier, has not finished
C20_WitnessIssuedBesideRunning ==
    /\ pc = "awaitSearches"
    /\ Len(tasks) = 2
    /\ InFlight(1)
    /\ tasks[2].st = "stagger"
    /\ ENABLED StaggerElapsed(2)

-----------------------------------------------------------------------------
\* the providers call of enrichment callback j has been issued
ProvidersIssued(j) == etasks[j].st = "providers" \/ etasks[j].providers # ""

\* C21 as stated: the providers call is issued for every resolved movie,
\* whether its details call succeeds or fails.  The providers call stands
\* inside the try block after the awaited details call (route.js:187-195),
\* so a failed details call jumps past it to the catch of route.js:242
\* and this fails.
C21_ProvidersForEveryMovie ==
    Finished =>
        \A j \in 1..Len(etasks) : ProvidersIssued(j)

\* what does hold: the providers call of a movie is issued exactly when
\* its details call has succeeded
C21_ProvidersAfterDetailsOnly ==
    \A j \in 1..Len(etasks) :
        ProvidersIssued(j) <=> etasks[j].details = "ok"

\* a finished request with a movie whose details call failed and whose
\* providers call was never issued
C21_WitnessSkipped ==
    /\ Finished
    /\ TheResponse.status = 200
    /\ \E j \in 1..Len(etasks) :
         /\ etasks[j].details = "failed"
         /\ ~ProvidersIssued(j)
         /\ "providers" \notin called

-----------------------------------------------------------------------------
\* the handler is suspended on an awaited store upsert
AwaitsStore ==
    \/ pc = "awaitPreferences"
    \/ /\ pc = "awaitEnrich"
       /\ \E j \in 1..Len(etasks) : etasks[j].st = "saving"

\* C22 as stated: the upserts are fire-and-forget, so a request whose
\* store upserts never complete still produces its response.  Both
\* upserts are awaited (route.js:51 and 223), so this fails: the handler
\* stays suspended on the upsert.
C22_RespondsWithoutStore == <>Finished

\* the same, for the oracle call alone
C22_ReachesOracleWithoutStore ==
    <>(Finished \/ "oracle" \in called)

\* what does hold: the oracle call is never issued while the preference
\* upsert is unsettled, and no response is produced while a saved-movie
\* upsert is unsettled
C22_UpsertsAreAwaited ==
    /\ [](pc = "awaitPreferences" =>
             "oracle" \notin called /\ responses = <<>>)
    /\ [](AwaitsStore => ~Finished)
    /\ [][AwaitsStore /\ ~AwaitsStore' => StoreSettles]_vars

\* the handler suspended on the preference upsert, the oracle not called
C22_WitnessWaiting ==
    /\ pc = "awaitPreferences"
    /\ "oracle" \notin called
    /\ ~ENABLED HandlerSteps

-----------------------------------------------------------------------------
\* a store write has been issued
StoreWritten == upserts # NoUpserts

\* the details call and, where one was made, the providers call of
\* enrichment callback j have completed
CatalogDone(j) == etasks[j].st \in {"saving", "done"}

\* C23 as stated: the stages come in the order Validating, Generating,
\* Resolving, Enriching, Persisting, Responding: no store write is issued
\* before the oracle call, and a saved-movie write is issued only when
\* the catalog calls of all movies have completed.  The preference upsert
\* of route.js:51 stands before the oracle call of route.js:82, and each
\* saved-movie upsert is issued inside the callback of its own movie, so
\* this fails.
C23_PersistAfterEnrichAll ==
    /\ StoreWritten => "oracle" \in called
    /\ upserts.user_movies # EmptyBag =>
           \A j \in 1..Len(etasks) : CatalogDone(j)

\* what does hold: the preference upsert is issued and settled before
\* the oracle call, the searches all end before the first details call,
\* and the saved-movie upsert of a movie is issued after the details and
\* providers calls of that movie
C23_OrderInCode ==
    /\ "oracle" \in called /\ AsksForPreferenceSave =>
           /\ pc # "awaitPreferences"
           /\ BagCardinality(upserts.user_preferences) = 1
    /\ "search" \in called => "oracle" \in called
    /\ "details" \in called => "search" \in called /\ tasks = <<>>
    /\ "providers" \in called => "details" \in called
    /\ \A j \in 1..Len(etasks) :
           SaveIssued(etasks[j].movie.id) =>
               \E k \in 1..Len(etasks) :
                   /\ etasks[k].movie.id = etasks[j].movie.id
                   /\ CatalogDone(k)
                   /\ etasks[k].details = "ok"

\* the saved-movie upsert of one movie is issued while the details call
\* of another movie has not completed
C23_WitnessSaveBesideDetails ==
    /\ pc = "awaitEnrich"
    /\ Len(etasks) = 2
    /\ etasks[1].st = "saving"
    /\ etasks[2].st = "details"
    /\ upserts.user_movies # EmptyBag

\* the preference upsert is issued and the oracle has not been called
C23_WitnessPreferencesFirst ==
    /\ pc = "awaitPreferences"
    /\ upserts.user_preferences # EmptyBag
    /\ "oracle" \notin called

-----------------------------------------------------------------------------
\* the request passes the credential checks and the validation
PassesChecks == AllCredentials /\ AfterBody(req) \notin {"throw", "reject"}

CatalogCalls == {"search", "details", "providers"}

\* C24: a request that passes the credential checks and the validation
\* issues the oracle call, and issues it once: the call is made from the
\* validation or from the settled preference upsert and never again, a
\* failure included.  When the call fails the request ends at once with
\* a status-500 error body, no catalog call and no saved-movie upsert
\* having been made.
C24_OneOracleCall ==
    /\ [](Finished /\ PassesChecks => "oracle" \in called)
    /\ []("oracle" \in called => PassesChecks)
    /\ [][pc' = "awaitOracle" =>
             /\ "oracle" \notin called
             /\ pc \in {"awaitBody", "awaitPreferences"}]_vars
    /\ [][OracleFails =>
             /\ Finished'
             /\ Len(responses') = 1
             /\ responses'[1].status = 500
             /\ IsErrorBody(responses'[1])
             /\ called' \cap CatalogCalls = {}
             /\ "user_movies" \notin called'
             /\ upserts'.user_movies = EmptyBag]_vars

\* the oracle call of a request with a userId has failed: the response
\* has status 500 and nothing was asked of the catalog
C24_Witness ==
    /\ Finished
    /\ PassesChecks
    /\ WantsMovieSave(req)
    /\ "oracle" \in called
    /\ \E e \in OracleErrors : TheResponse.error = "API route error: " \o e
    /\ TheResponse.status = 500
    /\ called \cap CatalogCalls = {}
    /\ upserts.user_movies = EmptyBag

-----------------------------------------------------------------------------
\* the handler is suspended on a details or providers call
AwaitsEnrichmentCall ==
    /\ pc = "awaitEnrich"
    /\ \E j \in 1..Len(etasks) : etasks[j].st \in {"details", "providers"}

\* C25 as stated: every catalog call is bounded by a timeout, so when the
\* oracle and the store answer, the request produces a response even if
\* a catalog endpoint never answers.  The search is called with
\* timeout: 10000 (route.js:146); the details and providers calls of
\* route.js:187-195 are given no timeout, and axios then waits without
\* limit, so this fails.
C25_AlwaysResponds == <>Finished

\* what does hold: the searches all settle, so the request gets as far as
\* a response or the enrichment, and where it does not respond it is
\* suspended on a details or providers call
C25_RespondsOrAwaitsEnrichment ==
    <>[](Finished \/ AwaitsEnrichmentCall)

\* the handler suspended on a details call and on nothing else
C25_WitnessWaiting ==
    /\ AwaitsEnrichmentCall
    /\ \A j \in 1..Len(etasks) : etasks[j].st \in {"details", "done"}
    /\ ~ENABLED HandlerSteps
    /\ ~ENABLED StoreSettles

-----------------------------------------------------------------------------
\* no two movies of the sequence have the same id
DistinctIds(movies) ==
    \A a, b \in 1..Len(movies) : movies[a].id = movies[b].id => a = b

\* C26: duplicates by movie id are suppressed at add-time.  Every list of
\* the table starts without duplicates, and under every interleaving of
\* the selects and updates of handleSaveToExistingList and
\* handleRemoveMovieFromList (two adds of one movie that both read the
\* list before either writes included) no stored list comes to hold two
\* movies with the same id: every update writes a list that was read from
\* the table, with a movie appended that the read list did not hold, or
\* with a movie filtered out.
C26_NoDuplicateIds ==
    /\ \A i \in ListIds : DistinctIds(user_movie_lists[i].movies)
    /\ \A k \in 1..Len(pending) : DistinctIds(pending[k].data)

\* two adds of one movie overlap: the second has read the list without
\* the movie and waits for its update, the first has written the movie
C26_Witness ==
    \E k \in 1..Len(pending) :
        /\ IsAdd(pending[k])
        /\ pending[k].st = "update"
        /\ HasRow(user_movie_lists, pending[k].listId)
        /\ HoldsId(user_movie_lists[pending[k].listId].movies,
                   pending[k].movie.id)
        /\ Len(pending[k].data) = 2

-----------------------------------------------------------------------------
\* the ids of the movies of a list
Ids(movies) == {movies[j].id : j \in 1..Len(movies)}

IsRemove(op) == op.kind = "handleRemoveMovieFromList"

\* the update of handler k is written to a row that exists and the
\* handler goes on to report success
WritesAndReports(k) ==
    /\ HasRow(user_movie_lists, pending[k].listId)
    /\ pending[k].by # Null

\* C27 as stated: no update of a list is lost.  When the update of an
\* add is written and reported, the stored list holds what it held a
\* moment before and the added movie; when the update of a remove is
\* written and reported, it holds what it held a moment before without
\* the removed movie: whatever an overlapping operation wrote in between
\* is still there.  Each handler writes the whole array it read at its
\* select (part_000:374 and 451-456), so this fails.
C27_NoLostUpdate ==
    [][\A k \in 1..Len(pending) :
          LET before == user_movie_lists[pending[k].listId].movies
              after == user_movie_lists'[pending[k].listId].movies
          IN  /\ AddUpdateSettled(k, "ok") /\ WritesAndReports(k) =>
                    Ids(after) = Ids(before) \cup {pending[k].movie.id}
              /\ RemoveUpdateSettled(k, "ok") /\ WritesAndReports(k) =>
                    Ids(after) = Ids(before) \ {pending[k].movie.id}]_vars

\* what does hold: the update writes the list as it was at the select of
\* the same handler, with the movie added or without the movie removed
C27_WritesWhatItRead ==
    [][\A k \in 1..Len(pending) :
          (AddUpdateSettled(k, "ok") \/ RemoveUpdateSettled(k, "ok"))
          /\ HasRow(user_movie_lists, pending[k].listId) =>
              user_movie_lists'[pending[k].listId].movies = pending[k].data]_vars

\* a remove that read the list before an add wrote to it waits for its
\* update, which leaves out the added movie
C27_WitnessStaleRemove ==
    \E k \in 1..Len(pending) :
        /\ IsRemove(pending[k])
        /\ pending[k].st = "update"
        /\ WritesAndReports(k)
        /\ \E id \in Ids(user_movie_lists[pending[k].listId].movies) :
               /\ id # pending[k].movie.id
               /\ id \notin Ids(pending[k].data)

-----------------------------------------------------------------------------
\* a fetchUserLists called for a user who is not the user of the page now
StaleFetch(k) ==
    /\ pending[k].kind = "fetchUserLists"
    /\ pending[k].by # user

\* C28 as stated: userLists is empty whenever no user is signed in and
\* holds only lists of the signed-in user otherwise, under every
\* interleaving of sign-in, sign-out and fetch completions.  A
\* fetchUserLists that was called for an earlier session calls
\* setUserLists when it settles, whoever is signed in by then
\* (part_000:188-196), so this fails.
C28_ListsFollowSession ==
    IF user = Null
    THEN userLists = <<>>
    ELSE \A i \in 1..Len(userLists) : userLists[i].user_id = user

\* what does hold: the SIGNED_OUT event empties userLists, and a fetch
\* that settles sets userLists to the rows of the user it was called
\* for, not to those of the user signed in when it settles
C28_FetchSetsListsOfItsCaller ==
    /\ [][SignedOut => userLists' = <<>>]_vars
    /\ [][\A k \in 1..Len(pending) :
             FetchSettled(k, "ok") =>
                 \A i \in 1..Len(userLists') :
                     userLists'[i].user_id = pending[k].by]_vars

\* nobody is signed in and the page shows the lists of the user who
\* signed out: the fetch called for that session settled afterwards
C28_WitnessListsAfterSignOut ==
    /\ user = Null
    /\ userLists # <<>>
    /\ \A i \in 1..Len(userLists) : userLists[i].user_id = "u1"
    /\ toast = Toast("info", "Successfully signed out")

\* a fetch called for the session that has ended is still in flight
C28_WitnessStaleFetch ==
    /\ user = Null
    /\ userLists = <<>>
    /\ \E k \in 1..Len(pending) : StaleFetch(k) /\ pending[k].by = "u1"

-----------------------------------------------------------------------------
\* no handler of the page is suspended at a store call, and none has
\* ended in its catch block
PageQuiet == pending = <<>> /\ error = Null

\* C29 as stated: once every list operation has completed and no store
\* call is in flight, userLists holds exactly the rows the table holds
\* for the signed-in user, in the order of the select.  createNewList
\* and handleDeleteList do not fetch: they set userLists from the
\* userLists of the render they were called in (part_000:408 and 432),
\* so when the two overlap, the one that settles last puts back what the
\* other changed, and this fails.
C29_PageMatchesStore ==
    PageQuiet /\ user # Null =>
        userLists = SelectByOwner(user_movie_lists, user)

\* a create and a delete overlapped: everything has settled without an
\* error, and the page of u1 shows a list whose row is deleted
C29_WitnessDeletedListShown ==
    /\ PageQuiet
    /\ user = "u1"
    /\ toast = Toast("success", "New list created successfully!")
    /\ \E i \in 1..Len(userLists) :
           /\ userLists[i].id = 1
           /\ user_movie_lists[1] = DeletedList

\* the same overlap settled the other way round: the page does not show
\* a list that the table holds for u1
C29_WitnessCreatedListMissing ==
    /\ PageQuiet
    /\ user = "u1"
    /\ toast = Toast("success", "List deleted successfully!")
    /\ \E id \in ListIds :
           /\ HasRow(user_movie_lists, id)
           /\ user_movie_lists[id].user_id = "u1"
           /\ \A i \in 1..Len(userLists) : userLists[i].id # id

-----------------------------------------------------------------------------
\* C30 as stated: the records of a success response have pairwise
\* distinct movie ids.  Each title is searched and resolved on its own
\* (route.js:131-171), the results are joined and filtered for null
\* alone (route.js:173-174), and one record is built per surviving
\* result (route.js:184-265): nothing compares the ids, so two titles
\* that resolve to one catalog movie give two records with one id, and
\* this fails.
C30_DistinctRecordIds ==
    (Finished /\ TheResponse.status = 200) =>
        DistinctIds(TheResponse.movies)

\* what does hold: the response has one record for each title that
\* resolved, with the id of the movie that title resolved to
C30_OneRecordPerResolvedTitle ==
    (Finished /\ TheResponse.status = 200) =>
        /\ Len(TheResponse.movies) = Cardinality(Survivors)
        /\ \A i \in Survivors :
               TheResponse.movies[Rank(i)].id = movieDetailsResults[i].id

\* two different titles resolved to the same catalog movie, and the
\* response holds two records with that id
C30_WitnessSameMovieTwice ==
    /\ Finished
    /\ TheResponse.status = 200
    /\ Len(movieTitles) = 2
    /\ movieTitles[1] # movieTitles[2]
    /\ Len(TheResponse.movies) = 2
    /\ TheResponse.movies[1].id = TheResponse.movies[2].id

====
